---- MODULE Spec2Model ----
(***************************************************************************)
(* Model of the digest pipeline of src/src/dedupe_digest.py:               *)
(*   load_items -> dedupe_exact -> dedupe_fuzzy_within_entity -> sorted    *)
(* together with the helpers it is built from (canonicalize_url,           *)
(* domain_of, is_primary_domain, parse_dt_safe, normalize_title,           *)
(* choose_better) and the library calls they make (urlparse, parse_qsl,    *)
(* urlencode, urlunparse, dateutil's parse, rapidfuzz's token_set_ratio,   *)
(* datetime comparison, sorted).                                           *)
(*                                                                         *)
(* Python strings are TLA+ strings; a character is a string of length 1.   *)
(* A Python call either returns a value or raises: an outcome is a record  *)
(* [raised |-> BOOLEAN, val |-> value].                                    *)
(***************************************************************************)
EXTENDS Integers, Sequences, FiniteSets, TLC

VARIABLES
    raw,        \* the raw records main reads from data/raw
    loaded,     \* main's `items` after load_items
    exact,      \* outcome of dedupe_exact(items)
    fuzzy,      \* outcome of dedupe_fuzzy_within_entity(items, threshold=92)
    digest,     \* outcome of the final sorted(...)
    pc,         \* main's position: "load", "exact", "fuzzy", "sort", "done", "raised"
    tb_a,       \* choose_better's argument a
    tb_b,       \* choose_better's argument b
    tb_out,     \* outcome of choose_better(tb_a, tb_b)
    tb_pc,      \* "idle", "call" (before the call), "return" (after it)
    fz_in,      \* the list dedupe_fuzzy_within_entity is called on
    fz_called,  \* the thresholds it has been called with on that list
    fz_out,     \* the outcome of the call, by threshold
    cu_url,     \* the string canonicalize_url is called on
    cu_once,    \* canonicalize_url(cu_url)
    cu_twice,   \* canonicalize_url(canonicalize_url(cu_url))
    cu_pc,      \* "idle", "call", "once" (after the first call), "twice"
    server,     \* what each page URL answers to HEAD and GET right now
    state_file, \* data/state/site_state.json: the "pages" mapping on disk
    pages_state,\* collect_official_sites.main's pages_state
    hits,       \* its `hits`
    out_file,   \* the hits the last finished run wrote to data/raw
    ent,        \* how many entities the loop of line 170 has started
    todo,       \* what is left of `filtered` for the current entity
    run_no,     \* how many runs have started
    site_pc     \* "off" (no collector), "idle" (between runs), "run"

main_vars == <<raw, loaded, exact, fuzzy, digest, pc>>
tb_vars   == <<tb_a, tb_b, tb_out, tb_pc>>
fz_vars   == <<fz_in, fz_called, fz_out>>
cu_vars   == <<cu_url, cu_once, cu_twice, cu_pc>>
site_vars == <<server, state_file, pages_state, hits, out_file, ent, todo, run_no, site_pc>>
vars      == <<main_vars, tb_vars, fz_vars, cu_vars, site_vars>>

(***************************************************************************)
(* Characters and strings                                                  *)
(***************************************************************************)

\* The ASCII characters the model's strings are made of, in code-point order.
Ascii == "\t\n #%&+-./0123456789:;=?ABCDEFGHIJKLMNOPQRSTUVWXYZ[]_abcdefghijklmnopqrstuvwxyz"

Upper == "ABCDEFGHIJKLMNOPQRSTUVWXYZ"

Lower == "abcdefghijklmnopqrstuvwxyz"

At(s, i) == SubSeq(s, i, i)

\* the set of the characters of s
CharsOf(s) == {At(s, i) : i \in 1..Len(s)}

\* code-point order of the characters, as a table
OrdTable == [c \in CharsOf(Ascii) |-> CHOOSE i \in 1..Len(Ascii) : At(Ascii, i) = c]

\* ord(c): the position of c in code-point order
Ord(c) == OrdTable[c]

\* str.isspace() for one character (the characters \s matches)
IsSpace(c) == c \in {" ", "\t", "\n"}

\* lower case of every character, as a table
LowerTable ==
    [c \in CharsOf(Ascii) |->
        IF c \in CharsOf(Upper)
        THEN At(Lower, CHOOSE i \in 1..Len(Upper) : At(Upper, i) = c)
        ELSE c]

\* str.lower() for one character
LowerChar(c) == LowerTable[c]

RECURSIVE StrLower(_)
\* str.lower()
StrLower(s) ==
    IF s = "" THEN "" ELSE LowerChar(Head(s)) \o StrLower(Tail(s))

RECURSIVE LStrip(_)
LStrip(s) ==
    IF s # "" /\ IsSpace(Head(s)) THEN LStrip(Tail(s)) ELSE s

RECURSIVE RStrip(_)
RStrip(s) ==
    IF s # "" /\ IsSpace(At(s, Len(s))) THEN RStrip(SubSeq(s, 1, Len(s) - 1)) ELSE s

\* str.strip()
Strip(s) == RStrip(LStrip(s))

RECURSIVE CollapseSpace(_)
\* re.sub(r"\s+", " ", s): every maximal run of whitespace becomes one space
CollapseSpace(s) ==
    IF s = "" THEN ""
    ELSE IF IsSpace(Head(s))
         THEN " " \o CollapseSpace(LStrip(s))
         ELSE Head(s) \o CollapseSpace(Tail(s))

RECURSIVE StrLess(_, _)
\* s < t for Python strings: lexicographic by code point
StrLess(s, t) ==
    IF t = "" THEN FALSE
    ELSE IF s = "" THEN TRUE
    ELSE IF Head(s) = Head(t) THEN StrLess(Tail(s), Tail(t))
    ELSE Ord(Head(s)) < Ord(Head(t))

\* k in d for Python strings: k occurs in d as a substring
Contains(d, k) ==
    \E i \in 1..(Len(d) - Len(k) + 1) : SubSeq(d, i, i + Len(k) - 1) = k

\* s.startswith(pre)
StartsWith(s, pre) == Len(s) >= Len(pre) /\ SubSeq(s, 1, Len(pre)) = pre

\* min(S) for a non-empty set of integers
Min(S) == CHOOSE x \in S : \A y \in S : x <= y

\* position of the first occurrence of character c in s, 0 if there is none
Find(s, c) ==
    LET found == {i \in 1..Len(s) : At(s, i) = c}
    IN  IF found = {} THEN 0 ELSE Min(found)

RECURSIVE SplitOn(_, _)
\* s.split(c) for a one-character separator: the sequence of fields
SplitOn(s, c) ==
    IF Find(s, c) = 0 THEN <<s>>
    ELSE <<SubSeq(s, 1, Find(s, c) - 1)>> \o SplitOn(SubSeq(s, Find(s, c) + 1, Len(s)), c)

RECURSIVE JoinWith(_, _)
\* c.join(parts)
JoinWith(parts, c) ==
    IF parts = <<>> THEN ""
    ELSE IF Len(parts) = 1 THEN parts[1]
    ELSE parts[1] \o c \o JoinWith(Tail(parts), c)

\* an outcome: the call returned v
Ok(v) == [raised |-> FALSE, val |-> v]

\* an outcome: the call raised an exception; val is a placeholder
Raised == [raised |-> TRUE, val |-> <<>>]

(***************************************************************************)
(* The raw records the inputs are made of                                  *)
(***************************************************************************)

\* A raw record of data/raw/*.json (source_feed and summary are carried
\* through unchanged and never read by the pipeline).
Raw(eid, name, title, url, published) ==
    [entity_id |-> eid, entity_name |-> name, source_feed |-> "google_news",
     title |-> title, url |-> url, published |-> published, summary |-> " s "]

\* Raw records of one entity whose titles score 50, 100, 22 and 44 against
\* each other, on a primary and on other domains.
FigureRecords ==
    { Raw("figure", "Figure", "Ab", "https://x.co/a", "2024-05-02T10:00:00"),
      Raw("figure", "Figure", " ac", "https://ir.y.co/c", "2024-05-01T10:00:00"),
      Raw("figure", "Figure", "ab  pppp", "https://x.co/dd", "2024-05-01T10:00:00"),
      Raw("figure", "Figure", "AB qqqq", "https://q.co/ee?ref=1", "not-a-date") }

\* The raw records the collections of main are drawn from: two entities;
\* titles that are equal, near and far from each other; URLs with and without
\* tracking parameters, on primary and other domains, and empty, among them
\* four that are one URL once canonical; published values without offset,
\* with offset, unparsable and missing.
RawPool ==
    FigureRecords \cup
    { Raw("apptronik", "apptronik", "Ab", "https://x.co/a?utm_source=tw", "2024-05-02T10:00:00"),
      Raw("apptronik", "apptronik", "cd", "https://x.co/f", "2024-05-02T10:00:00"),
      Raw("apptronik", "apptronik", "ab", "https://q.co/g", ""),
      Raw("figure", "Figure", "zz", "", "2024-05-01T10:00:00"),
      Raw("figure", "Figure", "zz", "https://x.co/a?gclid=3", "2024-05-01T10:00:00"),
      Raw("figure", "Figure", "ab", "https://x.co/a?fbclid=9", "2024-05-01T05:00:00-05:00"),
      Raw("apptronik", "apptronik", "yy", "https://q.co/h", "2024-05-01T10:00:00+00:00") }

\* The raw records the lists of dedupe_fuzzy_within_entity are loaded from:
\* those of the first entity, one more of it whose title scores 100 against
\* two titles that score 44 against each other and whose published value is
\* empty, one whose published value has a UTC offset, and one of a second
\* entity whose title is empty
FuzzyPool ==
    FigureRecords \cup
    { Raw("apptronik", "apptronik", "", "https://x.co/f", "not-a-date"),
      Raw("figure", "Figure", "ab", "https://q.co/gg", ""),
      Raw("figure", "Figure", "ab", "https://x.co/a?fbclid=9", "2024-05-01T05:00:00-05:00") }

(***************************************************************************)
(* datetime values, dateutil.parser.parse, parse_dt_safe                   *)
(***************************************************************************)

Digits == CharsOf("0123456789")

IsDigits(s) == s # "" /\ \A i \in 1..Len(s) : At(s, i) \in Digits

RECURSIVE ParseInt(_)
\* int(s) for a string of decimal digits
ParseInt(s) ==
    IF s = "" THEN 0
    ELSE 10 * ParseInt(SubSeq(s, 1, Len(s) - 1)) + (Ord(At(s, Len(s))) - Ord("0"))

IsLeap(y) == (y % 4 = 0) /\ ((y % 100 # 0) \/ (y % 400 = 0))

DaysInMonth(y, m) ==
    IF m = 2 THEN (IF IsLeap(y) THEN 29 ELSE 28)
    ELSE IF m \in {4, 6, 9, 11} THEN 30 ELSE 31

RECURSIVE DaysBeforeMonth(_, _)
DaysBeforeMonth(y, m) ==
    IF m = 1 THEN 0 ELSE DaysBeforeMonth(y, m - 1) + DaysInMonth(y, m - 1)

\* date.toordinal(): 0001-01-01 is day 1
ToOrdinal(y, m, d) ==
    365 * (y - 1) + ((y - 1) \div 4) - ((y - 1) \div 100) + ((y - 1) \div 400)
        + DaysBeforeMonth(y, m) + d

SecondsPerDay == 86400

\* A datetime: `aware` says whether it carries a UTC offset; (day, sec) is the
\* proleptic ordinal day and the second of that day, in UTC when aware and on
\* the wall clock when naive.
MkDateTime(aware, day, sec) == [aware |-> aware, day |-> day, sec |-> sec]

\* datetime.min: 0001-01-01T00:00:00, naive
DateTimeMin == MkDateTime(FALSE, 1, 0)

\* an aware datetime with wall clock (day, sec) and UTC offset `off` seconds,
\* as the instant it denotes
ToUtc(day, sec, off) ==
    LET t == sec - off
    IN  IF t < 0 THEN MkDateTime(TRUE, day - 1, t + SecondsPerDay)
        ELSE IF t >= SecondsPerDay THEN MkDateTime(TRUE, day + 1, t - SecondsPerDay)
        ELSE MkDateTime(TRUE, day, t)

\* the date part "YYYY-MM-DD" is well formed and names a day of the calendar
ValidDate(s) ==
    /\ Len(s) = 10
    /\ At(s, 5) = "-" /\ At(s, 8) = "-"
    /\ IsDigits(SubSeq(s, 1, 4)) /\ IsDigits(SubSeq(s, 6, 7)) /\ IsDigits(SubSeq(s, 9, 10))
    /\ ParseInt(SubSeq(s, 1, 4)) >= 1
    /\ ParseInt(SubSeq(s, 6, 7)) \in 1..12
    /\ ParseInt(SubSeq(s, 9, 10)) \in
          1..DaysInMonth(ParseInt(SubSeq(s, 1, 4)), ParseInt(SubSeq(s, 6, 7)))

\* the time part "HH:MM:SS" is well formed
ValidTime(s) ==
    /\ Len(s) = 8
    /\ At(s, 3) = ":" /\ At(s, 6) = ":"
    /\ IsDigits(SubSeq(s, 1, 2)) /\ IsDigits(SubSeq(s, 4, 5)) /\ IsDigits(SubSeq(s, 7, 8))
    /\ ParseInt(SubSeq(s, 1, 2)) \in 0..23
    /\ ParseInt(SubSeq(s, 4, 5)) \in 0..59
    /\ ParseInt(SubSeq(s, 7, 8)) \in 0..59

\* the offset part: "Z" or "+HH:MM" or "-HH:MM"
ValidOffset(s) ==
    \/ s = "Z"
    \/ /\ Len(s) = 6
       /\ At(s, 1) \in {"+", "-"}
       /\ At(s, 4) = ":"
       /\ IsDigits(SubSeq(s, 2, 3)) /\ IsDigits(SubSeq(s, 5, 6))
       /\ ParseInt(SubSeq(s, 2, 3)) \in 0..23
       /\ ParseInt(SubSeq(s, 5, 6)) \in 0..59

OffsetSeconds(s) ==
    IF s = "Z" THEN 0
    ELSE (IF At(s, 1) = "-" THEN -1 ELSE 1)
            * (ParseInt(SubSeq(s, 2, 3)) * 3600 + ParseInt(SubSeq(s, 5, 6)) * 60)

DateOrdinal(s) ==
    ToOrdinal(ParseInt(SubSeq(s, 1, 4)), ParseInt(SubSeq(s, 6, 7)), ParseInt(SubSeq(s, 9, 10)))

TimeSeconds(s) ==
    ParseInt(SubSeq(s, 1, 2)) * 3600 + ParseInt(SubSeq(s, 4, 5)) * 60 + ParseInt(SubSeq(s, 7, 8))

\* dateutil.parser.parse on the ISO-8601 forms datetime.isoformat() writes:
\* "YYYY-MM-DDTHH:MM:SS" (naive) and the same followed by "Z" or "+HH:MM" /
\* "-HH:MM" (aware).  Every other string of the model (the empty string,
\* free text) raises ParserError.
dtparse(iso) ==
    IF Len(iso) >= 19 /\ ValidDate(SubSeq(iso, 1, 10)) /\ At(iso, 11) = "T"
         /\ ValidTime(SubSeq(iso, 12, 19))
    THEN IF Len(iso) = 19
         THEN Ok(MkDateTime(FALSE, DateOrdinal(SubSeq(iso, 1, 10)),
                            TimeSeconds(SubSeq(iso, 12, 19))))
         ELSE IF ValidOffset(SubSeq(iso, 20, Len(iso)))
              THEN Ok(ToUtc(DateOrdinal(SubSeq(iso, 1, 10)),
                            TimeSeconds(SubSeq(iso, 12, 19)),
                            OffsetSeconds(SubSeq(iso, 20, Len(iso)))))
              ELSE Raised
    ELSE Raised

\* datetime.max: 9999-12-31T23:59:59, naive
DateTimeMax == MkDateTime(FALSE, ToOrdinal(9999, 12, 31), SecondsPerDay - 1)

\* a fallback to the other sentinel: datetime.max when parsing raises
parse_dt_safe_max(iso) ==
    LET d == dtparse(iso)
    IN  IF d.raised THEN DateTimeMax ELSE d.val

\* lines 93-96 of parse_dt_safe: the parsed datetime, datetime.min when
\* parsing raises
ParsedOrMin(iso) ==
    LET d == dtparse(iso)
    IN  IF d.raised THEN DateTimeMin ELSE d.val

\* the published values of the raw records
PoolPublished == {r.published : r \in RawPool \cup FuzzyPool}

\* what lines 93-96 give for each of them, computed once: <<iso, datetime>>
PoolTimes == {<<iso, ParsedOrMin(iso)>> : iso \in PoolPublished}

\* parse_dt_safe(iso), looked up in PoolTimes when it is there
parse_dt_safe(iso) ==
    IF iso \in PoolPublished
    THEN (CHOOSE e \in PoolTimes : e[1] = iso)[2]
    ELSE ParsedOrMin(iso)

\* datetime.__eq__: a naive and an aware datetime are never equal (no raise)
DtEq(x, y) == x.aware = y.aware /\ x.day = y.day /\ x.sec = y.sec

\* datetime.__lt__ raises TypeError for a naive and an aware datetime
DtCmpRaises(x, y) == x.aware # y.aware

\* datetime.__lt__ when it does not raise
DtLess(x, y) == x.day < y.day \/ (x.day = y.day /\ x.sec < y.sec)


(***************************************************************************)
(* urllib.parse: urlparse, parse_qsl, urlencode, urlunparse                *)
(***************************************************************************)

\* the characters quote_plus leaves alone
QuoteSafe == CharsOf("ABCDEFGHIJKLMNOPQRSTUVWXYZabcdefghijklmnopqrstuvwxyz0123456789_.-")

\* the characters a URL scheme may be made of (it starts with a letter)
SchemeChars == CharsOf("ABCDEFGHIJKLMNOPQRSTUVWXYZabcdefghijklmnopqrstuvwxyz0123456789+-.")

\* the two hexadecimal digits of a character's code point
HexOf(c) ==
    CASE c = "\t" -> "09" [] c = "\n" -> "0A" [] c = " " -> "20" [] c = "#" -> "23"
      [] c = "%" -> "25" [] c = "&" -> "26" [] c = "+" -> "2B"
      [] c = "/" -> "2F" [] c = ":" -> "3A" [] c = ";" -> "3B"
      [] c = "=" -> "3D" [] c = "?" -> "3F" [] c = "[" -> "5B" [] c = "]" -> "5D"

HexCoded == {"\t", "\n", " ", "#", "%", "&", "+", "/", ":", ";", "=", "?", "[", "]"}

RECURSIVE quote_plus(_)
\* urllib.parse.quote_plus: space becomes "+", unsafe characters "%XX"
quote_plus(s) ==
    IF s = "" THEN ""
    ELSE (IF Head(s) = " " THEN "+"
          ELSE IF Head(s) \in QuoteSafe THEN Head(s)
          ELSE "%" \o HexOf(Head(s)))
         \o quote_plus(Tail(s))

RECURSIVE unquote_plus(_)
\* parse_qsl's decoding of a name or a value: "+" is a space, "%XX" the
\* character it codes (an escape that codes nothing is kept as it is)
unquote_plus(s) ==
    IF s = "" THEN ""
    ELSE IF Head(s) = "+" THEN " " \o unquote_plus(Tail(s))
    ELSE IF Head(s) = "%" /\ Len(s) >= 3
              /\ \E c \in HexCoded : HexOf(c) = SubSeq(s, 2, 3)
         THEN (CHOOSE c \in HexCoded : HexOf(c) = SubSeq(s, 2, 3))
                \o unquote_plus(SubSeq(s, 4, Len(s)))
    ELSE Head(s) \o unquote_plus(Tail(s))

\* position of the first character of s that is in the set cs,
\* Len(s) + 1 if there is none
FindAny(s, cs) ==
    LET found == {i \in 1..Len(s) : At(s, i) \in cs}
    IN  IF found = {} THEN Len(s) + 1 ELSE Min(found)

\* urlsplit, step 1: the scheme, "" when the text before the first ":" is not one
SchemeOf(url) ==
    LET i == Find(url, ":")
    IN  IF i > 1 /\ LowerChar(At(url, 1)) \in CharsOf(Lower)
             /\ \A j \in 1..(i - 1) : At(url, j) \in SchemeChars
        THEN StrLower(SubSeq(url, 1, i - 1))
        ELSE ""

AfterScheme(url) ==
    IF SchemeOf(url) = "" THEN url ELSE SubSeq(url, Find(url, ":") + 1, Len(url))

\* urlsplit, step 2: the network location after "//", up to "/", "?" or "#"
NetlocOf(url) ==
    LET r == AfterScheme(url)
    IN  IF StartsWith(r, "//")
        THEN SubSeq(r, 3, FindAny(SubSeq(r, 3, Len(r)), {"/", "?", "#"}) + 1)
        ELSE ""

AfterNetloc(url) ==
    LET r == AfterScheme(url)
    IN  IF StartsWith(r, "//")
        THEN SubSeq(r, FindAny(SubSeq(r, 3, Len(r)), {"/", "?", "#"}) + 2, Len(r))
        ELSE r

\* the part of s before the first c (all of s when c does not occur)
Before(s, c) == IF Find(s, c) = 0 THEN s ELSE SubSeq(s, 1, Find(s, c) - 1)

\* the part of s after the first c ("" when c does not occur)
After(s, c) == IF Find(s, c) = 0 THEN "" ELSE SubSeq(s, Find(s, c) + 1, Len(s))

\* _splitparams: the position of the first ";" of the last path segment, 0 if
\* there is none
ParamsAt(path) ==
    IF \E i \in 1..Len(path) :
          At(path, i) = ";" /\ \A j \in i..Len(path) : At(path, j) # "/"
    THEN Min({i \in 1..Len(path) :
                At(path, i) = ";" /\ \A j \in i..Len(path) : At(path, j) # "/"})
    ELSE 0

\* the six components, given the text after the network location
UrlParts(scheme, netloc, rest) ==
    [scheme   |-> scheme,
     netloc   |-> netloc,
     path     |-> IF ParamsAt(Before(Before(rest, "#"), "?")) = 0
                  THEN Before(Before(rest, "#"), "?")
                  ELSE SubSeq(Before(Before(rest, "#"), "?"), 1,
                              ParamsAt(Before(Before(rest, "#"), "?")) - 1),
     params   |-> IF ParamsAt(Before(Before(rest, "#"), "?")) = 0
                  THEN ""
                  ELSE SubSeq(Before(Before(rest, "#"), "?"),
                              ParamsAt(Before(Before(rest, "#"), "?")) + 1,
                              Len(Before(Before(rest, "#"), "?"))),
     query    |-> After(Before(rest, "#"), "?"),
     fragment |-> After(rest, "#")]

\* urlparse(url): scheme, netloc, path, params, query, fragment
urlparse(url) == UrlParts(SchemeOf(url), NetlocOf(url), AfterNetloc(url))

\* urlunparse, step 1: path and params
WithParams(p) == IF p.params = "" THEN p.path ELSE p.path \o ";" \o p.params

\* urllib.parse.uses_netloc without its empty entry
USES_NETLOC ==
    {"ftp", "http", "gopher", "nntp", "telnet", "imap", "wais", "file", "mms",
     "https", "shttp", "snews", "prospero", "rtsp", "rtspu", "rsync", "svn",
     "svn+ssh", "sftp", "nfs", "git", "git+ssh", "ws", "wss"}

\* urlunparse, step 2 (urlunsplit of Python 3.11): "//" netloc before a path
\* made to start with "/", when there is a netloc or the scheme uses one and
\* the path does not start with "//"
WithNetloc(p, u) ==
    IF p.netloc # "" \/ (p.scheme \in USES_NETLOC /\ ~StartsWith(u, "//"))
    THEN "//" \o p.netloc \o (IF u # "" /\ Head(u) # "/" THEN "/" ELSE "") \o u
    ELSE u

\* urlunparse, steps 3 to 5: scheme, query, fragment
WithRest(p, u) ==
    (IF p.scheme # "" THEN p.scheme \o ":" ELSE "") \o u
      \o (IF p.query # "" THEN "?" \o p.query ELSE "")
      \o (IF p.fragment # "" THEN "#" \o p.fragment ELSE "")

\* urlunparse((scheme, netloc, path, params, query, fragment))
urlunparse(p) == WithRest(p, WithNetloc(p, WithParams(p)))

\* the (name, value) pair of one non-empty field of a query string: a field
\* without "=" has the value ""
PairOf(f) ==
    IF Find(f, "=") = 0 THEN <<unquote_plus(f), "">>
    ELSE <<unquote_plus(Before(f, "=")), unquote_plus(After(f, "="))>>

RECURSIVE PairsOf(_)
\* the pairs of the fields of a query string; an empty field is skipped
PairsOf(fields) ==
    IF fields = <<>> THEN <<>>
    ELSE (IF Head(fields) = "" THEN <<>> ELSE <<PairOf(Head(fields))>>)
         \o PairsOf(Tail(fields))

\* parse_qsl(query, keep_blank_values=True)
parse_qsl(query) == PairsOf(SplitOn(query, "&"))

\* d[key] = value on a dict kept as the sequence of its (key, value) entries in
\* insertion order: a key already there keeps its position
DictSet(d, kv) ==
    IF \E i \in 1..Len(d) : d[i][1] = kv[1]
    THEN [i \in 1..Len(d) |-> IF d[i][1] = kv[1] THEN kv ELSE d[i]]
    ELSE Append(d, kv)

RECURSIVE ToDict(_)
\* dict(pairs): a repeated key keeps its first position and takes the last value
ToDict(pairs) ==
    IF pairs = <<>> THEN <<>>
    ELSE DictSet(ToDict(SubSeq(pairs, 1, Len(pairs) - 1)), pairs[Len(pairs)])

RECURSIVE urlencode(_)
\* urlencode(qs, doseq=True) of a dict whose values are strings
urlencode(qs) ==
    IF qs = <<>> THEN ""
    ELSE quote_plus(qs[1][1]) \o "=" \o quote_plus(qs[1][2])
         \o (IF Len(qs) = 1 THEN "" ELSE "&" \o urlencode(Tail(qs)))


(***************************************************************************)
(* dedupe_digest.py: constants and helpers                                 *)
(***************************************************************************)

TRACKING_KEYS_EXACT == {"ref", "fbclid", "gclid"}

TRACKING_PREFIXES == {"utm_"}

PRIMARY_DOMAIN_KEYWORDS ==
    {"tesla.com", "bostondynamics.com", "apptronik.com", "figure.ai",
     "sanctuary.ai", "sec.gov", "investor", "ir.", "newsroom", "press", "blog"}

\* k in TRACKING_KEYS_EXACT or k.startswith(TRACKING_PREFIXES)
IsTrackingKey(k) ==
    \/ k \in TRACKING_KEYS_EXACT
    \/ \E pre \in TRACKING_PREFIXES : StartsWith(k, pre)

RECURSIVE DropTracking(_)
\* the dict entries left after popping every tracking key
DropTracking(qs) ==
    IF qs = <<>> THEN <<>>
    ELSE (IF IsTrackingKey(qs[1][1]) THEN <<>> ELSE <<qs[1]>>) \o DropTracking(Tail(qs))

\* lines 67-75: the URL rebuilt from its parts with the tracking keys dropped
Rebuild(p) ==
    urlunparse([p EXCEPT !.query = urlencode(DropTracking(ToDict(parse_qsl(p.query))))])

\* urlparse(url) raises ValueError("Invalid IPv6 URL"): the netloc has one of
\* "[" and "]" without the other (no string of the model has both)
UrlRaises(url) == ("[" \in CharsOf(NetlocOf(url))) # ("]" \in CharsOf(NetlocOf(url)))

\* canonicalize_url: the url itself when urlparse raises
canonicalize_url(url) == IF UrlRaises(url) THEN url ELSE Rebuild(urlparse(url))

\* domain_of: "" when urlparse raises
domain_of(url) == IF UrlRaises(url) THEN "" ELSE StrLower(urlparse(url).netloc)

is_primary_domain(domain) ==
    LET d == StrLower(domain)
    IN  \E k \in PRIMARY_DOMAIN_KEYWORDS : Contains(d, k)

normalize_title(t) == CollapseSpace(StrLower(Strip(t)))

\* a third rule that keeps the left-hand item whatever the times
ByPublished_keep_a(a, b, adt, bdt) == Ok(a)

\* lines 123-129 of choose_better, given the two parsed times
ByPublished(a, b, adt, bdt) ==
    IF ~DtEq(adt, bdt)
    THEN (IF DtCmpRaises(adt, bdt) THEN Raised
          ELSE IF DtLess(adt, bdt) THEN Ok(a) ELSE Ok(b))
    ELSE Ok(a)

\* lines 115-121 of choose_better, given a_primary and b_primary
ByDomainAndLength(a, b, a_primary, b_primary) ==
    IF a_primary /\ ~b_primary THEN Ok(a)
    ELSE IF b_primary /\ ~a_primary THEN Ok(b)
    ELSE IF Len(a.url) # Len(b.url)
         THEN (IF Len(a.url) < Len(b.url) THEN Ok(a) ELSE Ok(b))
    ELSE ByPublished(a, b, parse_dt_safe(a.published), parse_dt_safe(b.published))

\* choose_better(a, b): the outcome of the call
choose_better(a, b) ==
    ByDomainAndLength(a, b, is_primary_domain(a.domain), is_primary_domain(b.domain))

\* the Item of lines 139-148, given the canonical url
MkItem(r, url) ==
    [entity_id   |-> r.entity_id,
     entity_name |-> r.entity_name,
     source_feed |-> r.source_feed,
     title       |-> Strip(r.title),
     url         |-> url,
     published   |-> r.published,
     summary     |-> Strip(r.summary),
     domain      |-> domain_of(url)]

\* the Item load_items builds from one raw record
LoadItem(r) == MkItem(r, canonicalize_url(r.url))

load_items(rs) == [i \in 1..Len(rs) |-> LoadItem(rs[i])]

\* by_url[url] = w for the outcome w of choose_better
PutWinner(by_url, i, w) ==
    IF w.raised THEN Raised ELSE Ok([by_url EXCEPT ![i] = w.val])

\* the index of the entry of by_url whose key is url, 0 if there is none
UrlIndex(by_url, url) ==
    IF \E i \in 1..Len(by_url) : by_url[i].url = url
    THEN CHOOSE i \in 1..Len(by_url) : by_url[i].url = url
    ELSE 0

\* one turn of the loop of dedupe_exact (lines 156-161); by_url is the
\* sequence of the dict's values in insertion order, one per url
ExactStep(by_url, it) ==
    IF it.url = "" THEN Ok(by_url)
    ELSE IF UrlIndex(by_url, it.url) = 0 THEN Ok(Append(by_url, it))
    ELSE PutWinner(by_url, UrlIndex(by_url, it.url),
                   choose_better(by_url[UrlIndex(by_url, it.url)], it))

\* the loop goes on unless an earlier turn raised
ExactAfter(prev, it) == IF prev.raised THEN Raised ELSE ExactStep(prev.val, it)

RECURSIVE dedupe_exact(_)
\* dedupe_exact(items): the outcome
dedupe_exact(its) ==
    IF its = <<>> THEN Ok(<<>>)
    ELSE ExactAfter(dedupe_exact(SubSeq(its, 1, Len(its) - 1)), its[Len(its)])

(***************************************************************************)
(* rapidfuzz.fuzz.token_set_ratio                                          *)
(***************************************************************************)

RECURSIVE WordsOf(_)
\* str.split(): the maximal runs of non-whitespace characters
WordsOf(s) ==
    IF LStrip(s) = "" THEN <<>>
    ELSE <<SubSeq(LStrip(s), 1, FindAny(LStrip(s), {" ", "\t", "\n"}) - 1)>>
         \o WordsOf(SubSeq(LStrip(s), FindAny(LStrip(s), {" ", "\t", "\n"}), Len(LStrip(s))))

\* set(s.split())
TokenSet(s) == {WordsOf(s)[i] : i \in 1..Len(WordsOf(s))}

\* min(S) for a non-empty set of strings
MinString(S) == CHOOSE x \in S : \A y \in S : ~StrLess(y, x)

RECURSIVE SortedStrings(_)
\* sorted(S) for a set of strings
SortedStrings(S) ==
    IF S = {} THEN <<>> ELSE <<MinString(S)>> \o SortedStrings(S \ {MinString(S)})

Max(x, y) == IF x >= y THEN x ELSE y

RECURSIVE LcsRowStep(_, _, _, _)
\* one row of the longest-common-subsequence table: cur holds the entries of
\* the new row computed so far (column 0 first), prev is the row above
LcsRowStep(prev, c, b, cur) ==
    IF Len(cur) = Len(b) + 1 THEN cur
    ELSE LcsRowStep(prev, c, b,
             Append(cur, IF At(b, Len(cur)) = c THEN prev[Len(cur)] + 1
                         ELSE Max(prev[Len(cur) + 1], cur[Len(cur)])))

RECURSIVE LcsRow(_, _, _)
\* row i of the table for a[1..i] against b
LcsRow(a, b, i) ==
    IF i = 0 THEN [k \in 1..(Len(b) + 1) |-> 0]
    ELSE LcsRowStep(LcsRow(a, b, i - 1), At(a, i), b, <<0>>)

\* rapidfuzz's Indel distance: insertions and deletions turning a into b
indel_distance(a, b) == Len(a) + Len(b) - 2 * LcsRow(a, b, Len(a))[Len(b) + 1]

\* " ".join(sorted(S))
Joined(S) == JoinWith(SortedStrings(S), " ")

\* sect_ab_len, sect_ba_len: the length of the intersection joined with one
\* of the differences
SectPlus(sect_len, part_len) == sect_len + (IF sect_len # 0 THEN 1 ELSE 0) + part_len

\* A ratio is a pair <<dist, lensum>> standing for the score
\* 100 - 100 * dist / lensum: <<1, 1>> is the score 0 and <<0, 1>> the score 100.

\* the ratios token_set_ratio takes the maximum of, given the length of the
\* joined intersection and the two joined differences
RatiosOfParts(sect_len, diff_ab, diff_ba) ==
    IF sect_len = 0
    THEN {<<indel_distance(diff_ab, diff_ba),
            SectPlus(sect_len, Len(diff_ab)) + SectPlus(sect_len, Len(diff_ba))>>}
    ELSE {<<indel_distance(diff_ab, diff_ba),
            SectPlus(sect_len, Len(diff_ab)) + SectPlus(sect_len, Len(diff_ba))>>,
          <<1 + Len(diff_ab), sect_len + SectPlus(sect_len, Len(diff_ab))>>,
          <<1 + Len(diff_ba), sect_len + SectPlus(sect_len, Len(diff_ba))>>}

\* token_set_ratio on the two token sets: 0 when one is empty, 100 when one
\* contains the other
RatiosOfTokens(tokens_a, tokens_b) ==
    IF tokens_a = {} \/ tokens_b = {} THEN {<<1, 1>>}
    ELSE IF tokens_a \cap tokens_b # {}
              /\ (tokens_a \subseteq tokens_b \/ tokens_b \subseteq tokens_a)
         THEN {<<0, 1>>}
    ELSE RatiosOfParts(Len(Joined(tokens_a \cap tokens_b)),
                       Joined(tokens_a \ tokens_b), Joined(tokens_b \ tokens_a))

\* fuzz.token_set_ratio(s1, s2), as the set of its ratios
token_set_ratios(s1, s2) == RatiosOfTokens(TokenSet(s1), TokenSet(s2))

\* the normalized titles of the raw records
PoolTitles == {normalize_title(Strip(r.title)) : r \in RawPool \cup FuzzyPool}

\* token_set_ratios of every two of them, computed once: <<s1, s2, ratios>>
PoolRatios == {<<s1, s2, token_set_ratios(s1, s2)>> : s1, s2 \in PoolTitles}

\* token_set_ratios(s1, s2), looked up in PoolRatios when it is there
RatiosOf(s1, s2) ==
    IF s1 \in PoolTitles /\ s2 \in PoolTitles
    THEN (CHOOSE e \in PoolRatios : e[1] = s1 /\ e[2] = s2)[3]
    ELSE token_set_ratios(s1, s2)

\* the comparison of line 184 turned round: the score is at most the threshold
ScoreAtMost(s1, s2, threshold) ==
    \A r \in RatiosOf(s1, s2) : 100 * (r[2] - r[1]) <= threshold * r[2]

\* fuzz.token_set_ratio(s1, s2) >= threshold
ScoreAtLeast(s1, s2, threshold) ==
    \E r \in RatiosOf(s1, s2) : 100 * (r[2] - r[1]) >= threshold * r[2]

(***************************************************************************)
(* sorted(..., key=..., reverse=True)                                      *)
(***************************************************************************)

\* A sort key is a tuple whose first component is a datetime and whose other
\* components are strings: <<dt>> or <<dt, name, domain>>.

RECURSIVE StrTupleLess(_, _)
\* tuple < tuple for tuples of strings of the same length
StrTupleLess(k1, k2) ==
    IF k1 = <<>> THEN FALSE
    ELSE IF Head(k1) # Head(k2) THEN StrLess(Head(k1), Head(k2))
    ELSE StrTupleLess(Tail(k1), Tail(k2))

\* k1 < k2 raises: the first components differ (== gives False without
\* raising) and then < compares a naive with an aware datetime
KeyCmpRaises(k1, k2) == DtCmpRaises(k1[1], k2[1])

\* k1 < k2 when it does not raise
KeyLess(k1, k2) ==
    IF ~DtEq(k1[1], k2[1]) THEN DtLess(k1[1], k2[1])
    ELSE StrTupleLess(Tail(k1), Tail(k2))

\* sorted() raises TypeError as soon as it compares two keys whose datetimes
\* are one naive and one aware, which it does whenever the list holds both
SortRaises(keys) ==
    \E i, j \in 1..Len(keys) : KeyCmpRaises(keys[i], keys[j])

\* an insertion that puts position n before the positions whose key is equal
\* to key n: a sort that is not stable
InsertDesc_before_ties(keys, done, n) ==
    SubSeq(done, 1, Cardinality({i \in 1..Len(done) : KeyLess(keys[n], keys[done[i]])}))
      \o <<n>>
      \o SubSeq(done, Cardinality({i \in 1..Len(done) : KeyLess(keys[n], keys[done[i]])}) + 1,
                Len(done))

\* the positions `done`, already in order, with position n put after the last
\* one whose key is not less than key n
InsertDesc(keys, done, n) ==
    SubSeq(done, 1, Cardinality({i \in 1..Len(done) : ~KeyLess(keys[done[i]], keys[n])}))
      \o <<n>>
      \o SubSeq(done, Cardinality({i \in 1..Len(done) : ~KeyLess(keys[done[i]], keys[n])}) + 1,
                Len(done))

RECURSIVE SortedDescPerm(_, _)
\* the order sorted(..., reverse=True) puts the first n keys in when no
\* comparison raises, as the sequence of their positions: descending, equal
\* keys in their given order (the sort is stable, also when reversed)
SortedDescPerm(keys, n) ==
    IF n = 0 THEN <<>> ELSE InsertDesc(keys, SortedDescPerm(keys, n - 1), n)

\* the items in the order given by a sequence of positions
Permuted(its, perm) == [i \in 1..Len(its) |-> its[perm[i]]]

\* sorted(its, key=..., reverse=True) given the keys of its items: the outcome
SortedDesc(its, keys) ==
    IF SortRaises(keys) THEN Raised
    ELSE Ok(Permuted(its, SortedDescPerm(keys, Len(keys))))

(***************************************************************************)
(* dedupe_fuzzy_within_entity                                              *)
(***************************************************************************)

\* grouped.setdefault(entity_id, ...): the keys of `grouped` in insertion order
AddEntity(es, e) == IF \E i \in 1..Len(es) : es[i] = e THEN es ELSE Append(es, e)

RECURSIVE EntityOrder(_)
\* the keys of `grouped` after the loop of lines 171-172
EntityOrder(its) ==
    IF its = <<>> THEN <<>>
    ELSE AddEntity(EntityOrder(SubSeq(its, 1, Len(its) - 1)), its[Len(its)].entity_id)

\* a grouping that forgets the entity: every group holds all the items
GroupOf_any_entity(its, e) == its

\* grouped[entity_id]: the items of the entity in input order
GroupOf(its, e) == SelectSeq(its, LAMBDA it : it.entity_id = e)

\* a group left in the order of the input: the sort of line 176 forgotten
GroupSorted_unsorted(group) == Ok(group)

\* group_sorted: the outcome of line 176
GroupSorted(group) ==
    SortedDesc(group, [i \in 1..Len(group) |-> <<parse_dt_safe(group[i].published)>>])

\* a dup_idx that is the last accepted index whose title scores >= threshold:
\* an inner loop without the break of line 186
DupIdx_last(accepted, cand, threshold) ==
    IF \A i \in 1..Len(accepted) :
          ~ScoreAtLeast(normalize_title(cand.title), normalize_title(accepted[i].title),
                        threshold)
    THEN 0
    ELSE CHOOSE i \in 1..Len(accepted) :
          /\ ScoreAtLeast(normalize_title(cand.title), normalize_title(accepted[i].title),
                          threshold)
          /\ \A j \in (i + 1)..Len(accepted) :
                ~ScoreAtLeast(normalize_title(cand.title),
                              normalize_title(accepted[j].title), threshold)

\* the accepted indices whose title scores >= threshold against the candidate's
Hits(accepted, cand, threshold) ==
    {i \in 1..Len(accepted) :
        ScoreAtLeast(normalize_title(cand.title), normalize_title(accepted[i].title),
                     threshold)}

\* dup_idx after the inner loop (lines 181-186): the first such index, 0 for None
DupIdx(accepted, cand, threshold) ==
    IF Hits(accepted, cand, threshold) = {} THEN 0 ELSE Min(Hits(accepted, cand, threshold))

\* a resolution that merges: the winner is stored with the title of the item
\* it replaces
PutBetter_merged(accepted, dup_idx, w) ==
    IF w.raised THEN Raised
    ELSE Ok([accepted EXCEPT ![dup_idx] = [w.val EXCEPT !.title = accepted[dup_idx].title]])

\* accepted[dup_idx] = w for the outcome w of choose_better
PutBetter(accepted, dup_idx, w) ==
    IF w.raised THEN Raised ELSE Ok([accepted EXCEPT ![dup_idx] = w.val])

\* a loop that accepts every candidate: the merge of line 191 forgotten
AcceptOrMerge_append(accepted, cand, dup_idx) == Ok(Append(accepted, cand))

\* lines 188-191, given dup_idx
AcceptOrMerge(accepted, cand, dup_idx) ==
    IF dup_idx = 0 THEN Ok(Append(accepted, cand))
    ELSE PutBetter(accepted, dup_idx, choose_better(accepted[dup_idx], cand))

\* one turn of the loop over group_sorted, unless an earlier turn raised
AcceptAfter(prev, cand, threshold) ==
    IF prev.raised THEN Raised
    ELSE AcceptOrMerge(prev.val, cand, DupIdx(prev.val, cand, threshold))

RECURSIVE Accepted(_, _)
\* `accepted` after the loop over group_sorted (lines 178-191): the outcome
Accepted(group_sorted, threshold) ==
    IF group_sorted = <<>> THEN Ok(<<>>)
    ELSE AcceptAfter(Accepted(SubSeq(group_sorted, 1, Len(group_sorted) - 1), threshold),
                     group_sorted[Len(group_sorted)], threshold)

\* `accepted` for a group, given the outcome of sorting it
AcceptedOfSorted(sorted, threshold) ==
    IF sorted.raised THEN Raised ELSE Accepted(sorted.val, threshold)

\* what one entity group contributes to `kept`: the outcome
KeptOfGroup(group, threshold) == AcceptedOfSorted(GroupSorted(group), threshold)

\* kept.extend(accepted), unless an earlier group or this one raised
Extend(prev, g) == IF prev.raised \/ g.raised THEN Raised ELSE Ok(prev.val \o g.val)

RECURSIVE KeptOver(_, _, _)
\* `kept` after the groups of the entities es, in order: the outcome
KeptOver(its, es, threshold) ==
    IF es = <<>> THEN Ok(<<>>)
    ELSE Extend(KeptOver(its, SubSeq(es, 1, Len(es) - 1), threshold),
                KeptOfGroup(GroupOf(its, es[Len(es)]), threshold))

\* dedupe_fuzzy_within_entity(items, threshold): the outcome
dedupe_fuzzy_within_entity(its, threshold) ==
    KeptOver(its, EntityOrder(its), threshold)

\* the key of the digest sort (line 254)
DigestKey(x) == <<parse_dt_safe(x.published), StrLower(x.entity_name), x.domain>>

\* the digest sort of main (lines 252-256): the outcome
SortDigest(its) == SortedDesc(its, [i \in 1..Len(its) |-> DigestKey(its[i])])


(***************************************************************************)
(* The inputs                                                              *)
(***************************************************************************)

\* longest raw collection main is run on
MaxItems == 3

\* longest list dedupe_fuzzy_within_entity is called on by itself
MaxFuzzyItems == 4

\* the items load_items makes of them, one by one
FuzzyItems == {LoadItem(r) : r \in FuzzyPool}

\* the thresholds dedupe_fuzzy_within_entity is called with by itself
Thresholds == {0, 50, 92, 101}

\* the sequences over S of length n
SeqsOfLen(S, n) == [1..n -> S]

\* the sequences over S of length at most n
SeqsUpTo(S, n) == UNION {SeqsOfLen(S, k) : k \in 0..n}

\* the URLs and published values the arguments of choose_better are built from
TieBreakUrls ==
    {"https://x.co/a", "https://q.co/b", "https://x.co/ab", "https://ir.y.co",
     "https://ir.y.co/a", "https://Press.co"}

PublishedValues ==
    {"", "not-a-date", "0001-01-01T00:00:00", "2024-05-01T10:00:00",
     "2024-05-02T10:00:00", "2024-05-01T10:00:00+00:00",
     "2024-05-01T05:00:00-05:00", "2024-05-02T10:00:00Z"}

TieBreakItems ==
    {LoadItem(Raw("figure", "Figure", "t", u, p)) : u \in TieBreakUrls, p \in PublishedValues}

\* the value of a variable that holds no outcome yet
NotRun == [raised |-> FALSE, val |-> <<>>]

\* main, choose_better or dedupe_fuzzy_within_entity not being run
MainIdle ==
    raw = <<>> /\ loaded = <<>> /\ exact = NotRun /\ fuzzy = NotRun
    /\ digest = NotRun /\ pc = "idle"
TieBreakIdle == tb_a = <<>> /\ tb_b = <<>> /\ tb_out = NotRun /\ tb_pc = "idle"
FuzzyIdle == fz_in = <<>> /\ fz_called = {} /\ fz_out = [t \in Thresholds |-> NotRun]
CanonIdle == cu_url = "" /\ cu_once = "" /\ cu_twice = "" /\ cu_pc = "idle"
SiteIdle ==
    /\ server = <<>> /\ state_file = <<>> /\ pages_state = <<>> /\ hits = <<>>
    /\ out_file = <<>> /\ ent = 0 /\ todo = <<>> /\ run_no = 0 /\ site_pc = "off"

(***************************************************************************)
(* main: the pipeline                                                      *)
(***************************************************************************)

\* the threshold main passes (line 248)
FUZZY_THRESHOLD == 92

\* line 248 on the outcome of line 245
FuzzyOf(e) ==
    IF e.raised THEN Raised ELSE dedupe_fuzzy_within_entity(e.val, FUZZY_THRESHOLD)

\* lines 252-256 on the outcome of line 248
DigestOf(f) == IF f.raised THEN Raised ELSE SortDigest(f.val)

\* lines 245-256 of main on a list of items: the digest, or the raise
DigestOfItems(its) == DigestOf(FuzzyOf(dedupe_exact(its)))

Init ==
    /\ raw \in SeqsUpTo(RawPool, MaxItems)
    /\ loaded = <<>>
    /\ exact = NotRun
    /\ fuzzy = NotRun
    /\ digest = NotRun
    /\ pc = "load"
    /\ TieBreakIdle
    /\ FuzzyIdle
    /\ CanonIdle
    /\ SiteIdle

\* lines 239-241: items.extend(load_items(p))
Load ==
    /\ pc = "load"
    /\ loaded' = load_items(raw)
    /\ pc' = "exact"
    /\ UNCHANGED <<raw, exact, fuzzy, digest, tb_vars, fz_vars, cu_vars, site_vars>>

\* line 245: items = dedupe_exact(items)
Exact ==
    /\ pc = "exact"
    /\ exact' = dedupe_exact(loaded)
    /\ pc' = IF exact'.raised THEN "raised" ELSE "fuzzy"
    /\ UNCHANGED <<raw, loaded, fuzzy, digest, tb_vars, fz_vars, cu_vars, site_vars>>

\* line 248: items = dedupe_fuzzy_within_entity(items, threshold=92)
Fuzzy ==
    /\ pc = "fuzzy"
    /\ fuzzy' = dedupe_fuzzy_within_entity(exact.val, FUZZY_THRESHOLD)
    /\ pc' = IF fuzzy'.raised THEN "raised" ELSE "sort"
    /\ UNCHANGED <<raw, loaded, exact, digest, tb_vars, fz_vars, cu_vars, site_vars>>

\* lines 252-256: items = sorted(items, key=..., reverse=True)
Sort ==
    /\ pc = "sort"
    /\ digest' = SortDigest(fuzzy.val)
    /\ pc' = IF digest'.raised THEN "raised" ELSE "done"
    /\ UNCHANGED <<raw, loaded, exact, fuzzy, tb_vars, fz_vars, cu_vars, site_vars>>

Next == Load \/ Exact \/ Fuzzy \/ Sort

Spec == Init /\ [][Next]_vars

\* which calls of main have been made
ExactRan == pc \in {"fuzzy", "sort", "done", "raised"}
FuzzyRan == pc \in {"sort", "done"} \/ (pc = "raised" /\ ~exact.raised)
SortRan  == pc = "done" \/ (pc = "raised" /\ ~exact.raised /\ ~fuzzy.raised)

(***************************************************************************)
(* choose_better on its own                                                *)
(***************************************************************************)

InitTieBreak ==
    /\ MainIdle
    /\ FuzzyIdle
    /\ CanonIdle
    /\ SiteIdle
    /\ tb_a \in TieBreakItems
    /\ tb_b \in TieBreakItems
    /\ tb_out = NotRun
    /\ tb_pc = "call"

ChooseBetter ==
    /\ tb_pc = "call"
    /\ tb_out' = choose_better(tb_a, tb_b)
    /\ tb_pc' = "return"
    /\ UNCHANGED <<tb_a, tb_b, main_vars, fz_vars, cu_vars, site_vars>>

NextTieBreak == ChooseBetter

SpecTieBreak == InitTieBreak /\ [][NextTieBreak]_vars

(***************************************************************************)
(* dedupe_fuzzy_within_entity on its own, called on one list with one      *)
(* threshold after the other                                               *)
(***************************************************************************)

InitFuzzy ==
    /\ MainIdle
    /\ TieBreakIdle
    /\ CanonIdle
    /\ SiteIdle
    /\ fz_in \in SeqsUpTo(FuzzyItems, MaxFuzzyItems)
    /\ fz_called = {}
    /\ fz_out = [t \in Thresholds |-> NotRun]

\* a call with the lowest threshold not tried yet
FuzzyCall ==
    /\ fz_called # Thresholds
    /\ \E t \in Thresholds \ fz_called :
          /\ \A u \in Thresholds \ fz_called : t <= u
          /\ fz_called' = fz_called \cup {t}
          /\ fz_out' = [fz_out EXCEPT ![t] = dedupe_fuzzy_within_entity(fz_in, t)]
    /\ UNCHANGED <<fz_in, main_vars, tb_vars, cu_vars, site_vars>>

NextFuzzy == FuzzyCall

SpecFuzzy == InitFuzzy /\ [][NextFuzzy]_vars

(***************************************************************************)
(* canonicalize_url on its own, called on a string and again on its result *)
(***************************************************************************)

\* what comes before the query: with a host, with an upper-case scheme and
\* params, without scheme, empty, without host, and one urlparse rejects
UrlBases ==
    {"https://x.co/a", "HTTP://X.co/p;q", "x.co/a", "", "/////a", "http://[x",
     "http:/a", "//x.co", "https://x.co"}

\* queries: none, empty, tracking keys alone and among others, repeated keys,
\* blank values, empty fields, escapes, keys that differ from tracking keys
\* by case or length
UrlQueries ==
    {"", "?", "?ref=1", "?a=1&utm_source=tw", "?a=1&a=2", "?b",
     "?b=&Ref=2&fbclid=3", "?a=%2F+c&&gclid", "?utm_=&c=1&a=2&c=3", "?REF=1&utm=2"}

UrlFragments == {"", "#f"}

UrlPool == {b \o q \o f : b \in UrlBases, q \in UrlQueries, f \in UrlFragments}

InitCanon ==
    /\ MainIdle
    /\ TieBreakIdle
    /\ FuzzyIdle
    /\ SiteIdle
    /\ cu_url \in UrlPool
    /\ cu_once = ""
    /\ cu_twice = ""
    /\ cu_pc = "call"

Canonicalize ==
    /\ cu_pc = "call"
    /\ cu_once' = canonicalize_url(cu_url)
    /\ cu_pc' = "once"
    /\ UNCHANGED <<cu_url, cu_twice, main_vars, tb_vars, fz_vars, site_vars>>

CanonicalizeAgain ==
    /\ cu_pc = "once"
    /\ cu_twice' = canonicalize_url(cu_once)
    /\ cu_pc' = "twice"
    /\ UNCHANGED <<cu_url, cu_once, main_vars, tb_vars, fz_vars, site_vars>>

NextCanon == Canonicalize \/ CanonicalizeAgain

SpecCanon == InitCanon /\ [][NextCanon]_vars

(***************************************************************************)
(* collect_official_sites.py: successive runs of main sharing              *)
(* data/state/site_state.json                                              *)
(*                                                                         *)
(* An Optional[str] is a sequence: <<>> for None, <<s>> for the string s.  *)
(* What the sitemaps hold (lines 175-192) and what a page answers are      *)
(* inputs: the candidate list of an entity is drawn anew in every run, and *)
(* a page can change its answer between any two fetches.  Title and        *)
(* snippet of a hit (lines 274-280) and the clock values (published,       *)
(* seen_at apart from the run it is written in) are left out.              *)
(***************************************************************************)

None == <<>>

Some(s) == <<s>>

\* the truth value of an Optional[str]: None and "" are false
Truthy(x) == x # None /\ x[1] # ""

\* normalize_url (lines 49-59): the code of canonicalize_url, with the same keys
normalize_url(url) == IF UrlRaises(url) THEN url ELSE Rebuild(urlparse(url))

\* the tuple `bad` of should_include_url
BAD_PATHS == {"/privacy", "/legal", "/terms", "/cookies", "/career", "/jobs", "/support"}

should_include_url(u) == ~\E b \in BAD_PATHS : Contains(StrLower(u), b)

\* the cap of line 211
MAX_FILTERED == 200

\* one turn of the loop of lines 201-208 on the candidate c, given the list
\* `filtered` and the urls seen (every url seen and included is in filtered,
\* the others are in `skipped`)
FilterStep(acc, url, lastmod) ==
    IF url \in acc.seen THEN acc
    ELSE IF ~should_include_url(url) THEN [acc EXCEPT !.seen = acc.seen \cup {url}]
    ELSE [seen |-> acc.seen \cup {url},
          filtered |-> Append(acc.filtered, [url |-> url, lastmod |-> lastmod])]

RECURSIVE FilterLoop(_)
\* `seen` and `filtered` after the loop of lines 201-208
FilterLoop(cands) ==
    IF cands = <<>> THEN [seen |-> {}, filtered |-> <<>>]
    ELSE FilterStep(FilterLoop(SubSeq(cands, 1, Len(cands) - 1)),
                    normalize_url(cands[Len(cands)].url), cands[Len(cands)].lastmod)

\* filtered[:200]
Capped(filtered) ==
    IF Len(filtered) <= MAX_FILTERED THEN filtered ELSE SubSeq(filtered, 1, MAX_FILTERED)

\* `filtered` of lines 199-211 for the candidate list of an entity
Filtered(cands) == Capped(FilterLoop(cands).filtered)

\* number of runs of the collector
MaxRuns == 2

\* number of entities of the watchlist
NumEntities == 2

\* longest candidate list of an entity
MaxCandidates == 2

\* The URLs of the sitemaps and official_pages: one page, the same page with
\* a tracking parameter, and a page should_include_url leaves out
CandidateUrls == {"https://x.co/a", "https://x.co/a?utm_source=tw", "https://x.co/jobs"}

\* The lastmod values: none (an official page, a sitemap entry without
\* lastmod), empty, within the lookback, before the cutoff, one that does not
\* parse
Lastmods == {None, Some(""), Some("2024-05-02"), Some("2020-01-01"), Some("soon")}

\* lines 216-234 for the clock of these runs: the lastmod parses to a time
\* before the cutoff
BeforeCutoff(lastmod) == lastmod = Some("2020-01-01")

Candidates == {[url |-> u, lastmod |-> l] : u \in CandidateUrls, l \in Lastmods}

CandidateLists == SeqsUpTo(Candidates, MaxCandidates)

\* the filtered lists of an entity, computed once
FilteredLists == {Filtered(cands) : cands \in CandidateLists}

\* the URLs that are fetched
PageUrls == {normalize_url(u) : u \in {v \in CandidateUrls : should_include_url(normalize_url(v))}}

\* The ETag and Last-Modified headers of a response
Headers ==
    { [etag |-> None,       last_modified |-> None],
      [etag |-> Some("e1"), last_modified |-> None],
      [etag |-> Some("e2"), last_modified |-> Some("m1")],
      [etag |-> Some("e1"), last_modified |-> Some("m2")],
      [etag |-> Some(""),   last_modified |-> Some("m1")] }

\* What a page answers: to HEAD, to GET only (HEAD raises), or to neither
Answers ==
    {[reach |-> r, headers |-> h] : r \in {"head", "get"}, h \in Headers}
      \cup {[reach |-> "down", headers |-> [etag |-> None, last_modified |-> None]]}

\* lines 245-256: the headers fetched, or both requests raise
Fetch(answer) == IF answer.reach = "down" THEN Raised ELSE Ok(answer.headers)

\* pages_state.get(url, {}).get(key): an entry is <<>> when the url is no key
PrevOf(pages, url, key) == IF pages[url] = <<>> THEN None ELSE pages[url][1][key]

\* one of lines 258-261: the header is there, was there, and differs
HeaderChanged(new, prev) == Truthy(new) /\ Truthy(prev) /\ new # prev

\* `changed` after line 265
Changed(headers, prev_etag, prev_lm, lastmod) ==
    \/ HeaderChanged(headers.etag, prev_etag)
    \/ HeaderChanged(headers.last_modified, prev_lm)
    \/ Truthy(lastmod)

\* line 268: the entry written for the url (seen_at is the run it is written in)
EntryOf(headers, run) ==
    <<[etag |-> headers.etag, last_modified |-> headers.last_modified, seen_at |-> run]>>

\* record_hit (lines 157-166), without what comes from the page and the clock
record_hit(entity, url) == [entity_id |-> entity, url |-> normalize_url(url)]

\* hits after lines 270-282
HitsAfter(changed, entity, url) == IF changed THEN Append(hits, record_hit(entity, url)) ELSE hits

InitSite ==
    /\ MainIdle
    /\ TieBreakIdle
    /\ FuzzyIdle
    /\ CanonIdle
    /\ server \in [PageUrls -> Answers]
    /\ state_file = [u \in PageUrls |-> <<>>]
    /\ pages_state = [u \in PageUrls |-> <<>>]
    /\ hits = <<>>
    /\ out_file = <<>>
    /\ ent = 0
    /\ todo = <<>>
    /\ run_no = 0
    /\ site_pc = "idle"

\* a page changes what it answers
ServerChange ==
    /\ site_pc \in {"idle", "run"}
    /\ \E u \in PageUrls : \E a \in Answers : server' = [server EXCEPT ![u] = a]
    /\ UNCHANGED <<state_file, pages_state, hits, out_file, ent, todo, run_no, site_pc,
                   main_vars, tb_vars, fz_vars, cu_vars>>

\* lines 151-168: a run starts and loads the state
StartRun ==
    /\ site_pc = "idle"
    /\ run_no < MaxRuns
    /\ pages_state' = state_file
    /\ hits' = <<>>
    /\ ent' = 0
    /\ todo' = <<>>
    /\ run_no' = run_no + 1
    /\ site_pc' = "run"
    /\ UNCHANGED <<server, state_file, out_file, main_vars, tb_vars, fz_vars, cu_vars>>

\* lines 170-211: the next entity, its candidate list and `filtered`
BeginEntity ==
    /\ site_pc = "run"
    /\ todo = <<>>
    /\ ent < NumEntities
    /\ ent' = ent + 1
    /\ todo' \in FilteredLists
    /\ UNCHANGED <<server, state_file, pages_state, hits, out_file, run_no, site_pc,
                   main_vars, tb_vars, fz_vars, cu_vars>>

\* lines 236-282 for a url whose fetch gave the headers
PageFetched(url, lastmod, headers) ==
    /\ pages_state' = [pages_state EXCEPT ![url] = EntryOf(headers, run_no)]
    /\ hits' = HitsAfter(Changed(headers, PrevOf(pages_state, url, "etag"),
                                 PrevOf(pages_state, url, "last_modified"), lastmod),
                         ent, url)

\* lines 213-282: one turn of the loop over `filtered`
Page ==
    /\ site_pc = "run"
    /\ todo # <<>>
    /\ todo' = Tail(todo)
    /\ IF BeforeCutoff(Head(todo).lastmod) \/ Fetch(server[Head(todo).url]).raised
       THEN UNCHANGED <<pages_state, hits>>
       ELSE PageFetched(Head(todo).url, Head(todo).lastmod,
                        Fetch(server[Head(todo).url]).val)
    /\ UNCHANGED <<server, state_file, out_file, ent, run_no, site_pc,
                   main_vars, tb_vars, fz_vars, cu_vars>>

\* lines 284-291: the state and the hits are written
EndRun ==
    /\ site_pc = "run"
    /\ todo = <<>>
    /\ ent = NumEntities
    /\ state_file' = pages_state
    /\ out_file' = hits
    /\ site_pc' = "idle"
    /\ UNCHANGED <<server, pages_state, hits, ent, todo, run_no,
                   main_vars, tb_vars, fz_vars, cu_vars>>

NextSite == ServerChange \/ StartRun \/ BeginEntity \/ Page \/ EndRun

SpecSite == InitSite /\ [][NextSite]_vars

(***************************************************************************)
(* Properties of dedupe_exact and of the pipeline (checked under Spec)     *)
(***************************************************************************)

\* the url values of a list of items
UrlsOf(its) == {its[i].url : i \in 1..Len(its)}

\* the item is in the list
IsIn(it, its) == \E k \in 1..Len(its) : its[k] = it

\* what C1 says of a list dedupe_exact returned
OnePerUrl(input, output) ==
    /\ \A i, j \in 1..Len(output) : i # j => output[i].url # output[j].url
    /\ UrlsOf(output) = UrlsOf(input) \ {""}

\* C1: for every input list dedupe_exact returns exactly one item for each
\* distinct non-empty url of the input: no two output items share a url, every
\* non-empty input url is in the output, and no output item has an empty url.
C1_OnePerUrl == ExactRan => (~exact.raised /\ OnePerUrl(loaded, exact.val))

\* C1, of the calls that return: the output holds one item per non-empty url
C1_OnePerUrlWhenReturned ==
    (ExactRan /\ ~exact.raised) => OnePerUrl(loaded, exact.val)

\* raw records i and j belong to different entities and have identical titles
CrossEntityTwins(i, j) ==
    /\ i # j
    /\ raw[i].entity_id # raw[j].entity_id
    /\ raw[i].title = raw[j].title

TwinsApart ==
    /\ pc # "load"
    /\ Len(raw) = 2
    /\ CrossEntityTwins(1, 2)
    /\ loaded[1].url # "" /\ loaded[2].url # ""
    /\ loaded[1].url # loaded[2].url

StrLeq(s1, s2) == ~StrLess(s2, s1)

\* what C7 says of two adjacent digest items x, y (x first)
InDigestOrder(x, y) ==
    /\ ~DtLess(parse_dt_safe(x.published), parse_dt_safe(y.published))
    /\ DtEq(parse_dt_safe(x.published), parse_dt_safe(y.published)) =>
          /\ StrLeq(StrLower(x.entity_name), StrLower(y.entity_name))
          /\ StrLower(x.entity_name) = StrLower(y.entity_name) => StrLeq(x.domain, y.domain)

\* C7: the digest is sorted by published time descending, then by
\* entity_name.lower() ascending, then by domain ascending: of two adjacent
\* digest items with equal parsed published time the first has the smaller or
\* equal lowercased entity name, and with equal names the smaller or equal domain.
C7_DigestOrder ==
    (SortRan /\ ~digest.raised) =>
        \A k \in 1..(Len(digest.val) - 1) : InDigestOrder(digest.val[k], digest.val[k + 1])

\* C7, the primary key alone: published time never ascends in the digest
C7_NewestFirst ==
    (SortRan /\ ~digest.raised) =>
        \A k \in 1..(Len(digest.val) - 1) :
            ~DtLess(parse_dt_safe(digest.val[k].published),
                    parse_dt_safe(digest.val[k + 1].published))

\* C9: no malformed record aborts the batch: whatever the published values
\* (with or without UTC offset, malformed, empty), the tie-break, the sort of
\* the fuzzy deduplicator and the digest sort complete without raising and the
\* pipeline returns a digest.
C9_NeverRaises == pc # "raised"

\* the published value does not parse
Unparsable(published) == dtparse(published).raised

\* item i of `loaded` is no duplicate of another item: its url is not empty
\* and no other item's, and no other item of its entity has a title scoring
\* at least the threshold against its own
NoDuplicate(i) ==
    /\ loaded[i].url # ""
    /\ \A j \in 1..Len(loaded) : j # i =>
          /\ loaded[j].url # loaded[i].url
          /\ loaded[j].entity_id = loaded[i].entity_id =>
                ~ScoreAtLeast(normalize_title(loaded[i].title),
                              normalize_title(loaded[j].title), FUZZY_THRESHOLD)

\* the items of the list at and after the first one whose published value
\* does not parse all have unparsable published values
UnparsableLast(its) ==
    \A k, m \in 1..Len(its) :
        (k < m /\ Unparsable(its[k].published)) => Unparsable(its[m].published)

\* C10: an item with an unparsable published value that duplicates no other
\* item is retained in the digest, after every item with a valid timestamp;
\* within an entity group of the fuzzy deduplicator the items with unparsable
\* values likewise come after those with valid timestamps.
C10_UnparsableKeptLast ==
    SortRan =>
        \A i \in 1..Len(loaded) :
            (NoDuplicate(i) /\ Unparsable(loaded[i].published)) =>
                /\ ~digest.raised
                /\ IsIn(loaded[i], digest.val)
                /\ \A k, m \in 1..Len(digest.val) :
                      (digest.val[k] = loaded[i] /\ ~Unparsable(digest.val[m].published))
                          => m < k
                /\ \A e \in {loaded[j].entity_id : j \in 1..Len(loaded)} :
                      /\ ~GroupSorted(GroupOf(exact.val, e)).raised
                      /\ UnparsableLast(GroupSorted(GroupOf(exact.val, e)).val)

\* C10, of the runs that return a digest
C10_WhenReturned ==
    (SortRan /\ ~digest.raised) =>
        \A i \in 1..Len(loaded) :
            (NoDuplicate(i) /\ Unparsable(loaded[i].published)) =>
                /\ IsIn(loaded[i], digest.val)
                /\ \A k, m \in 1..Len(digest.val) :
                      (digest.val[k] = loaded[i] /\ ~Unparsable(digest.val[m].published))
                          => m < k

(***************************************************************************)
(* Properties of choose_better (checked under SpecTieBreak)                *)
(***************************************************************************)

\* a and b have the same primary-domain status and urls of the same length
TieOnDomainAndLength(a, b) ==
    /\ is_primary_domain(a.domain) = is_primary_domain(b.domain)
    /\ Len(a.url) = Len(b.url)

\* the parsed published time of a is strictly earlier than that of b
\* (a time with and a time without UTC offset are neither equal nor ordered)
StrictlyEarlier(a, b) ==
    /\ parse_dt_safe(a.published).aware = parse_dt_safe(b.published).aware
    /\ DtLess(parse_dt_safe(a.published), parse_dt_safe(b.published))

\* the item the four ordered criteria of C5 select
ByCriteria(a, b) ==
    IF is_primary_domain(a.domain) # is_primary_domain(b.domain)
    THEN (IF is_primary_domain(a.domain) THEN a ELSE b)
    ELSE IF Len(a.url) # Len(b.url)
         THEN (IF Len(a.url) < Len(b.url) THEN a ELSE b)
    ELSE IF StrictlyEarlier(b, a) THEN b
    ELSE a

\* C5: choose_better(a, b) always returns one of its arguments, chosen by the
\* ordered criteria (1) the item on a primary domain when exactly one is,
\* (2) the strictly shorter url, (3) the strictly earlier parsed published
\* time, (4) a; each applied only when the one before ties.
C5_OrderedCriteria ==
    tb_pc = "return" => (~tb_out.raised /\ tb_out.val = ByCriteria(tb_a, tb_b))

\* C5, of the calls that return
C5_WhenReturned ==
    (tb_pc = "return" /\ ~tb_out.raised) => tb_out.val = ByCriteria(tb_a, tb_b)

\* a and b tie on all three criteria
TieOnAll(a, b) ==
    /\ TieOnDomainAndLength(a, b)
    /\ DtEq(parse_dt_safe(a.published), parse_dt_safe(b.published))

\* C6: choose_better(a, b) and choose_better(b, a) select the same item unless
\* a and b tie on primary-domain status, url length and parsed published
\* time; in that case each call returns its left-hand argument.
C6_Commutative ==
    tb_pc = "return" =>
        /\ ~tb_out.raised
        /\ ~choose_better(tb_b, tb_a).raised
        /\ IF TieOnAll(tb_a, tb_b)
           THEN tb_out.val = tb_a /\ choose_better(tb_b, tb_a).val = tb_b
           ELSE tb_out.val = choose_better(tb_b, tb_a).val

\* C6, of the pairs on which both calls return
C6_WhenReturned ==
    (tb_pc = "return" /\ ~tb_out.raised /\ ~choose_better(tb_b, tb_a).raised) =>
        IF TieOnAll(tb_a, tb_b)
        THEN tb_out.val = tb_a /\ choose_better(tb_b, tb_a).val = tb_b
        ELSE tb_out.val = choose_better(tb_b, tb_a).val

\* a and b tie on primary-domain status and url length, the published value of
\* `bad` does not parse and that of `good` does
OneUnparsable(bad, good) ==
    /\ TieOnDomainAndLength(bad, good)
    /\ Unparsable(bad.published)
    /\ ~Unparsable(good.published)

\* C8: when two duplicates tie on primary-domain status and on url length and
\* exactly one has an unparsable published value, choose_better retains the
\* item with the valid timestamp, in either argument order.
C8_UnparsableLoses ==
    tb_pc = "return" =>
        /\ OneUnparsable(tb_a, tb_b) => (~tb_out.raised /\ tb_out.val = tb_b)
        /\ OneUnparsable(tb_b, tb_a) => (~tb_out.raised /\ tb_out.val = tb_a)

\* the published value parses to a time without UTC offset
ValidNaive(published) == ~Unparsable(published) /\ ~dtparse(published).val.aware

\* what C8 as amended says of a call whose `bad` argument has the unparsable
\* value and whose `good` one a valid time without UTC offset
UnparsableWins(bad, good, left) ==
    (OneUnparsable(bad, good) /\ ValidNaive(good.published)) =>
        /\ ~tb_out.raised
        /\ tb_out.val = (IF DtEq(dtparse(good.published).val, DateTimeMin) THEN left ELSE bad)

\* C8 as amended: when two duplicates tie on primary-domain status and on url
\* length, exactly one has an unparsable published value and the other's
\* valid timestamp carries no UTC offset, choose_better retains the item with
\* the unparsable value (it parses as the minimum, the earliest time), in
\* either argument order; only when the valid timestamp is the minimum
\* 0001-01-01T00:00:00 itself do the two tie, and the left-hand argument is
\* retained.
C8_UnparsableWins ==
    tb_pc = "return" =>
        /\ UnparsableWins(tb_a, tb_b, tb_a)
        /\ UnparsableWins(tb_b, tb_a, tb_a)

\* C8, the case: the left argument has a valid time without offset, the right
\* one an unparsable value, and the call returned the right one
C8_Witness ==
    /\ tb_pc = "return"
    /\ OneUnparsable(tb_b, tb_a)
    /\ ValidNaive(tb_a.published)
    /\ ~tb_out.raised
    /\ tb_out.val = tb_b
    /\ tb_b # tb_a

(***************************************************************************)
(* Properties of dedupe_fuzzy_within_entity (checked under SpecFuzzy)      *)
(***************************************************************************)

\* the entity_id values of a list of items
EntitiesOf(its) == {its[i].entity_id : i \in 1..Len(its)}

\* what C2 says of the list `output` returned for `input` at threshold t
EntityIsolated(input, output, t) ==
    /\ EntitiesOf(output) = EntitiesOf(input)
    /\ \A e \in EntitiesOf(input) :
          /\ ~dedupe_fuzzy_within_entity(GroupOf(input, e), t).raised
          /\ GroupOf(output, e) = dedupe_fuzzy_within_entity(GroupOf(input, e), t).val

\* C2: dedupe_fuzzy_within_entity never merges items of different entity_id,
\* whatever the threshold: for every entity_id e the survivors with entity_id
\* e are what the function returns for the input items of e alone, so every
\* entity_id of the input is present in the output.
C2_EntityIsolation ==
    \A t \in fz_called :
        ~fz_out[t].raised /\ EntityIsolated(fz_in, fz_out[t].val, t)

\* C2, of the calls that return
C2_WhenReturned ==
    \A t \in fz_called :
        ~fz_out[t].raised => EntityIsolated(fz_in, fz_out[t].val, t)

\* the number of merges of the call at threshold t: input length minus
\* output length
Merges(t) == Len(fz_in) - Len(fz_out[t].val)

\* C4: for every fixed input list and thresholds t1 <= t2, the number of
\* merges dedupe_fuzzy_within_entity performs at t2 is less than or equal to
\* the number it performs at t1.
C4_ThresholdMonotone ==
    \A t1, t2 \in fz_called :
        (t1 <= t2 /\ ~fz_out[t1].raised /\ ~fz_out[t2].raised) => Merges(t2) <= Merges(t1)

\* no entity has more than three items in the list
AtMostThreePerEntity(its) == \A e \in EntitiesOf(its) : Len(GroupOf(its, e)) <= 3

\* C4 as amended: for every fixed input list with at most three items per
\* entity_id and thresholds t1 <= t2, the call at t2 raises exactly if the
\* call at t1 does, and when they return the number of merges at t2 is less
\* than or equal to the number at t1.
C4_MonotoneUpToThree ==
    AtMostThreePerEntity(fz_in) =>
        \A t1, t2 \in fz_called :
            t1 <= t2 =>
                /\ fz_out[t1].raised = fz_out[t2].raised
                /\ ~fz_out[t1].raised => Merges(t2) <= Merges(t1)

\* C4, the case: an entity with three items, on which the call at 92 merges,
\* and the call at 50 merges more
C4_Witness ==
    /\ {50, 92} \subseteq fz_called
    /\ \E e \in EntitiesOf(fz_in) : Len(GroupOf(fz_in, e)) = 3
    /\ AtMostThreePerEntity(fz_in)
    /\ ~fz_out[50].raised /\ ~fz_out[92].raised
    /\ 1 <= Merges(92)
    /\ Merges(92) < Merges(50)

(***************************************************************************)
(* Properties of canonicalize_url (checked under SpecCanon)                *)
(***************************************************************************)

\* C11: canonicalization is idempotent: canonicalize_url(canonicalize_url(u))
\* = canonicalize_url(u) for every string u, with tracking parameters,
\* repeated query keys, blank values or unparseable.
C11_Idempotent == cu_pc = "twice" => cu_twice = cu_once

\* the string has no network location and a path that starts with "//" once
\* it is parsed
SlashPath(url) ==
    ~UrlRaises(url) /\ urlparse(url).netloc = "" /\ StartsWith(urlparse(url).path, "//")

\* C11, of the other strings
C11_IdempotentButSlashPath ==
    (cu_pc = "twice" /\ ~SlashPath(cu_url)) => cu_twice = cu_once

\* the key is one of ref, fbclid, gclid or starts with utm_
NamedTracking(k) == k \in {"ref", "fbclid", "gclid"} \/ StartsWith(k, "utm_")

\* the query pairs whose key is no tracking key, in their order
KeptPairs(pairs) == SelectSeq(pairs, LAMBDA kv : ~NamedTracking(kv[1]))

\* what C12 says of the parts p of a url and the parts q of its canonical form
OnlyTrackingRemoved(p, q) ==
    /\ parse_qsl(q.query) = KeptPairs(parse_qsl(p.query))
    /\ q.scheme = p.scheme
    /\ q.netloc = p.netloc
    /\ q.path = p.path
    /\ q.params = p.params
    /\ q.fragment = p.fragment

\* C12: canonicalize_url removes exactly the query pairs whose key is ref,
\* fbclid, gclid or starts with utm_ and keeps every other pair, each
\* occurrence of a repeated key included, in the original relative order,
\* leaving scheme, host, path, params and fragment unchanged.
C12_OnlyTrackingRemoved ==
    (cu_pc \in {"once", "twice"} /\ ~UrlRaises(cu_url)) =>
        OnlyTrackingRemoved(urlparse(cu_url), urlparse(cu_once))

\* no key occurs twice among the pairs
KeysDistinct(pairs) ==
    \A i, j \in 1..Len(pairs) : pairs[i][1] = pairs[j][1] => i = j

\* C12, of the urls without a repeated query key and with a network location
\* or a path that does not start with "//"
C12_WhenKeysDistinct ==
    (/\ cu_pc \in {"once", "twice"}
     /\ ~UrlRaises(cu_url)
     /\ ~SlashPath(cu_url)
     /\ KeysDistinct(parse_qsl(urlparse(cu_url).query))) =>
        OnlyTrackingRemoved(urlparse(cu_url), urlparse(cu_once))

(***************************************************************************)
(* Order of the input (checked under Spec)                                 *)
(***************************************************************************)

\* the set of the items of a list
ItemsOf(its) == {its[i] : i \in 1..Len(its)}

\* main run on the loaded items in another order ends as this run has ended:
\* it raises if this one has, and its digest holds the same survivors
SameSurvivors(perm) ==
    /\ DigestOfItems(Permuted(loaded, perm)).raised = (pc = "raised")
    /\ pc = "done" => ItemsOf(DigestOfItems(Permuted(loaded, perm)).val) = ItemsOf(digest.val)

\* C13: the digest's set of surviving items does not depend on the order in
\* which the raw items are supplied: for every input collection and every
\* permutation of it, dedupe_exact, dedupe_fuzzy_within_entity and the final
\* sort yield the same survivors.
C13_OrderIndependent ==
    pc \in {"done", "raised"} =>
        \A perm \in Permutations(1..Len(loaded)) : SameSurvivors(perm)

\* no two items of the list have equal parsed published times
DistinctTimes(its) ==
    \A i, j \in 1..Len(its) :
        i # j => ~DtEq(parse_dt_safe(its[i].published), parse_dt_safe(its[j].published))

\* C13 as amended: for every input collection in which no two items have equal
\* parsed published times, and every permutation of it, the pipeline raises
\* for both orders or for neither and yields the same survivors.
C13_OrderIndependentDistinctTimes ==
    (pc \in {"done", "raised"} /\ DistinctTimes(loaded)) =>
        \A perm \in Permutations(1..Len(loaded)) : SameSurvivors(perm)

\* C13, the case: three items with different times, of which some were merged
C13_Witness ==
    /\ pc = "done"
    /\ DistinctTimes(loaded)
    /\ Len(loaded) = 3
    /\ Len(digest.val) = 1
    /\ \A perm \in Permutations(1..Len(loaded)) : SameSurvivors(perm)

(***************************************************************************)
(* The similarity score and the accepted list (checked under SpecFuzzy)    *)
(***************************************************************************)

\* the score of two titles is 100
Score100(t1, t2) == ScoreAtLeast(t1, t2, 100)

\* the items of the list whose entity is e and whose normalized title is empty
EmptyTitled(its, e) ==
    SelectSeq(its, LAMBDA it : it.entity_id = e /\ normalize_title(it.title) = "")

\* C14: two items of the same entity whose titles are both empty after
\* normalization score 100 and are collapsed into one item by
\* dedupe_fuzzy_within_entity at the default threshold 92; the score is 100 for
\* any two identical normalized titles.
C14_EmptyTitlesCollapse ==
    /\ \A i \in 1..Len(fz_in) :
          Score100(normalize_title(fz_in[i].title), normalize_title(fz_in[i].title))
    /\ (92 \in fz_called /\ ~fz_out[92].raised) =>
          \A e \in EntitiesOf(fz_in) : Len(EmptyTitled(fz_out[92].val, e)) <= 1

\* C14, of the titles that are not empty once normalized: identical ones score 100
C14_IdenticalNonEmptyScore100 ==
    \A i \in 1..Len(fz_in) :
        normalize_title(fz_in[i].title) # "" =>
            Score100(normalize_title(fz_in[i].title), normalize_title(fz_in[i].title))

\* how many times the item is in the list
Occurrences(its, x) == Len(SelectSeq(its, LAMBDA it : it = x))

\* the output holds every input item, as many times as the input holds it
EveryItemReturned(input, output) ==
    /\ Len(output) = Len(input)
    /\ \A x \in ItemsOf(input) : Occurrences(output, x) = Occurrences(input, x)

\* the output holds exactly one item for each entity_id of the input
OnePerEntity(input, output) ==
    /\ EntitiesOf(output) = EntitiesOf(input)
    /\ \A e \in EntitiesOf(input) : Len(GroupOf(output, e)) = 1

\* C15: with a threshold greater than 100 dedupe_fuzzy_within_entity never
\* merges and returns every input item; with a threshold less than or equal to
\* 0 it returns exactly one item per entity_id.
C15_ThresholdExtremes ==
    /\ 101 \in fz_called =>
          ~fz_out[101].raised /\ EveryItemReturned(fz_in, fz_out[101].val)
    /\ 0 \in fz_called =>
          ~fz_out[0].raised /\ OnePerEntity(fz_in, fz_out[0].val)

\* C15 of the calls that return
C15_WhenReturned ==
    /\ (101 \in fz_called /\ ~fz_out[101].raised) =>
          EveryItemReturned(fz_in, fz_out[101].val)
    /\ (0 \in fz_called /\ ~fz_out[0].raised) => OnePerEntity(fz_in, fz_out[0].val)

\* the parsed published time of the item
TimeOf(it) == parse_dt_safe(it.published)

\* `accepted` when the loop of lines 178-191 reaches the k-th candidate of
\* group_sorted: the outcome of the turns before
AcceptedBefore(group_sorted, k, t) == Accepted(SubSeq(group_sorted, 1, k - 1), t)

\* no accepted item is earlier than the candidate
NoneEarlier(accepted, cand) ==
    \A i \in 1..Len(accepted) :
        /\ ~DtCmpRaises(TimeOf(accepted[i]), TimeOf(cand))
        /\ ~DtLess(TimeOf(accepted[i]), TimeOf(cand))

\* the candidate is merged with accepted[dup_idx] and the two tie on
\* primary-domain status and url length
MergedByRule3(accepted, cand, dup_idx) ==
    /\ dup_idx # 0
    /\ TieOnDomainAndLength(accepted[dup_idx], cand)

\* the slot holds the candidate, or the accepted item if the times are equal
EarlierSurvives(accepted, cand, dup_idx, after) ==
    /\ ~after.raised
    /\ after.val[dup_idx] =
          IF DtEq(TimeOf(accepted[dup_idx]), TimeOf(cand)) THEN accepted[dup_idx] ELSE cand

\* what C16 says of the turn of the candidate, given `accepted` before it and
\* dup_idx
Rule3Turn(accepted, cand, dup_idx) ==
    /\ NoneEarlier(accepted, cand)
    /\ MergedByRule3(accepted, cand, dup_idx) =>
          EarlierSurvives(accepted, cand, dup_idx, AcceptOrMerge(accepted, cand, dup_idx))

\* the same, given the outcome of the turns before
Rule3TurnAfter(prev, cand, t) ==
    /\ ~prev.raised
    /\ Rule3Turn(prev.val, cand, DupIdx(prev.val, cand, t))

RECURSIVE Rule3From(_, _, _)
\* what C16 says of the turns of the candidates `rest`, given the outcome of
\* the turns before them
Rule3From(prev, rest, t) ==
    \/ rest = <<>>
    \/ /\ Rule3TurnAfter(prev, Head(rest), t)
       /\ Rule3From(AcceptAfter(prev, Head(rest), t), Tail(rest), t)

\* what C16 says of the turns of a group, given the outcome of sorting it
Rule3Turns(sorted, t) == ~sorted.raised => Rule3From(Ok(<<>>), sorted.val, t)

\* the threshold of the call FuzzyCall made last, if it made one: every call is
\* the last one in the state it leads to
LastCalled == {t \in fz_called : \A u \in fz_called : u <= t}

\* C16: in dedupe_fuzzy_within_entity every candidate is compared only against
\* accepted items whose parsed published time is not earlier than its own, so
\* whenever a merge is decided by tie-break rule 3 the earlier-published item,
\* the candidate, survives; the accepted item is kept only when the two parsed
\* times are equal.
C16_EarlierSurvivesRule3 ==
    \A t \in LastCalled : \A e \in EntitiesOf(fz_in) :
        Rule3Turns(GroupSorted(GroupOf(fz_in, e)), t)

\* the merge of the candidate with accepted[dup_idx], a different item, is
\* decided by rule 3, and the two times are equal if `equal`, different
\* otherwise
Rule3Merge(accepted, cand, dup_idx, equal) ==
    /\ MergedByRule3(accepted, cand, dup_idx)
    /\ accepted[dup_idx] # cand
    /\ equal = DtEq(TimeOf(accepted[dup_idx]), TimeOf(cand))

\* the same, given the outcome of the turns before
Rule3MergeAfter(prev, cand, t, equal) ==
    /\ ~prev.raised
    /\ Rule3Merge(prev.val, cand, DupIdx(prev.val, cand, t), equal)

\* a turn of the group is such a merge, given the outcome of sorting the group
Rule3MergeAmong(sorted, t, equal) ==
    /\ ~sorted.raised
    /\ \E k \in 1..Len(sorted.val) :
          Rule3MergeAfter(AcceptedBefore(sorted.val, k, t), sorted.val[k], t, equal)

\* the call at threshold t merged by rule 3 in the group of entity e
Rule3MergeIn(e, t, equal) == Rule3MergeAmong(GroupSorted(GroupOf(fz_in, e)), t, equal)

\* C16, the case: a call that returned after rule 3 decided a merge of two
\* different items with different times and another of two different items
\* with equal times
C16_Witness ==
    /\ \E t \in fz_called :
          /\ ~fz_out[t].raised
          /\ \E e \in EntitiesOf(fz_in) : Rule3MergeIn(e, t, FALSE)
          /\ \E e \in EntitiesOf(fz_in) : Rule3MergeIn(e, t, TRUE)
    /\ C16_EarlierSurvivesRule3

\* the score of the candidate's title against that of accepted[i] is >= t
Matches(accepted, i, cand, t) ==
    ScoreAtLeast(normalize_title(cand.title), normalize_title(accepted[i].title), t)

\* `after` is `before` with slot i holding the tie-break winner of before[i]
\* and the candidate, and nothing else changed
MergedInto(before, i, cand, after) ==
    /\ Len(after) = Len(before)
    /\ ~choose_better(before[i], cand).raised
    /\ after[i] = choose_better(before[i], cand).val
    /\ \A j \in 1..Len(before) : j # i => after[j] = before[j]

\* the accepted indices whose item matches the candidate
MatchesOf(before, cand, t) == {i \in 1..Len(before) : Matches(before, i, cand, t)}

\* what C18 says of one turn: `before` and `after` are the accepted list
\* before and after the candidate, `matching` the indices that match it
FirstMatchTurn(before, cand, after, matching) ==
    /\ matching = {} => after = Append(before, cand)
    /\ \A i \in matching :
          (\A j \in matching : i <= j) => MergedInto(before, i, cand, after)

\* the same, given the outcomes of the turns before the candidate and of its
\* own turn
FirstMatchTurnOf(prev, cand, next, t) ==
    /\ ~prev.raised
    /\ ~next.raised
    /\ FirstMatchTurn(prev.val, cand, next.val, MatchesOf(prev.val, cand, t))

RECURSIVE FirstMatchFrom(_, _, _)
\* what C18 says of the turns of the candidates `rest`, given the outcome of
\* the turns before them
FirstMatchFrom(prev, rest, t) ==
    \/ rest = <<>>
    \/ /\ FirstMatchTurnOf(prev, Head(rest), AcceptAfter(prev, Head(rest), t), t)
       /\ FirstMatchFrom(AcceptAfter(prev, Head(rest), t), Tail(rest), t)

\* what C18 says of the turns of a group, given the outcome of sorting it
FirstMatchTurns(sorted, t) == ~sorted.raised => FirstMatchFrom(Ok(<<>>), sorted.val, t)

\* C18: in dedupe_fuzzy_within_entity each candidate, taken in sorted order, is
\* scored against the accepted items in acceptance order and is merged only
\* with the first accepted item whose score is >= threshold: the tie-break
\* winner of that accepted item and the candidate occupies that same slot, all
\* other slots and the length of the accepted list are unchanged, and later
\* accepted items are not examined; if no accepted item matches, the candidate
\* is appended at the end. What the call returns is the accepted lists of the
\* groups, one after the other.
C18_FirstMatchOnly ==
    \A t \in LastCalled :
        /\ \A e \in EntitiesOf(fz_in) : FirstMatchTurns(GroupSorted(GroupOf(fz_in, e)), t)
        /\ ~fz_out[t].raised =>
              \A e \in EntitiesOf(fz_in) :
                  GroupOf(fz_out[t].val, e) = KeptOfGroup(GroupOf(fz_in, e), t).val

\* i is the first accepted index whose item matches the candidate
FirstMatch(accepted, i, cand, t) ==
    /\ Matches(accepted, i, cand, t)
    /\ \A j \in 1..(i - 1) : ~Matches(accepted, j, cand, t)

\* the candidate matches two accepted items, the first of which is other than
\* the candidate and loses to it
TwoMatches(before, cand, t) ==
    /\ \E i, j \in 1..Len(before) :
          i < j /\ Matches(before, i, cand, t) /\ Matches(before, j, cand, t)
    /\ \E i \in 1..Len(before) :
          FirstMatch(before, i, cand, t) /\ choose_better(before[i], cand) = Ok(cand)
                                         /\ before[i] # cand

\* the same, given the outcome of the turns before
TwoMatchesAfter(prev, cand, t) == ~prev.raised /\ TwoMatches(prev.val, cand, t)

\* a turn of the group has such a candidate, given the outcome of sorting it
TwoMatchesAmong(sorted, t) ==
    /\ ~sorted.raised
    /\ \E k \in 1..Len(sorted.val) :
          TwoMatchesAfter(AcceptedBefore(sorted.val, k, t), sorted.val[k], t)

\* C18, the case: a call at the default threshold that returned, in which a
\* candidate matched two accepted items and replaced the first of them
C18_Witness ==
    /\ 92 \in fz_called
    /\ ~fz_out[92].raised
    /\ \E e \in EntitiesOf(fz_in) : TwoMatchesAmong(GroupSorted(GroupOf(fz_in, e)), 92)

(***************************************************************************)
(* The stability of the digest sort (checked under Spec)                   *)
(***************************************************************************)

\* x and y tie on the three keys of the digest sort
KeyTie(x, y) ==
    /\ DtEq(TimeOf(x), TimeOf(y))
    /\ StrLower(x.entity_name) = StrLower(y.entity_name)
    /\ x.domain = y.domain

\* where the item is in the list
PositionIn(its, x) == CHOOSE k \in 1..Len(its) : its[k] = x

\* C17: the digest sort is stable: items that tie on all three sort keys
\* (parsed published time, lower-cased entity name, domain) appear in the
\* digest in the same relative order as in the output of the fuzzy
\* deduplicator.
C17_StableSort ==
    (SortRan /\ ~digest.raised) =>
        \A i, j \in 1..Len(fuzzy.val) :
            (i < j /\ KeyTie(fuzzy.val[i], fuzzy.val[j])) =>
                /\ IsIn(fuzzy.val[i], digest.val)
                /\ IsIn(fuzzy.val[j], digest.val)
                /\ PositionIn(digest.val, fuzzy.val[i]) < PositionIn(digest.val, fuzzy.val[j])

\* C17, the case: a digest of three items, two of which tie on the three keys
\* and are together moved by the sort behind or before the third
C17_Witness ==
    /\ pc = "done"
    /\ Len(digest.val) = 3
    /\ digest.val # fuzzy.val
    /\ \E i, j \in 1..3 :
          /\ i < j
          /\ fuzzy.val[i] # fuzzy.val[j]
          /\ KeyTie(fuzzy.val[i], fuzzy.val[j])
          /\ PositionIn(digest.val, fuzzy.val[i]) < PositionIn(digest.val, fuzzy.val[j])

(***************************************************************************)
(* Resolution selects items (checked under Spec)                           *)
(***************************************************************************)

\* every item of the output is an item of the input, field for field, and is
\* in the output at most as many times as it is in the input
SelectedFrom(input, output) ==
    \A x \in ItemsOf(output) :
        /\ IsIn(x, input)
        /\ Occurrences(output, x) <= Occurrences(input, x)

\* the outputs of the two calls of main that have returned are selected from
\* their inputs
OutputsSelected ==
    /\ (ExactRan /\ ~exact.raised) => SelectedFrom(loaded, exact.val)
    /\ (FuzzyRan /\ ~fuzzy.raised) => SelectedFrom(exact.val, fuzzy.val)

\* a step of dedupe_exact or of dedupe_fuzzy_within_entity leaves its input
\* list as it was
InputsUnchanged ==
    /\ pc = "exact" => loaded' = loaded
    /\ pc = "fuzzy" => (loaded' = loaded /\ exact' = exact)

\* C19: duplicate resolution discards the loser and never merges or mutates:
\* every item in the output of dedupe_exact and of
\* dedupe_fuzzy_within_entity is field-for-field identical to one of the input
\* items, each input item appears at most once in the output, and the input
\* list and its items are left unchanged by both functions.
C19_SelectsNeverMutates == []OutputsSelected /\ [][InputsUnchanged]_vars

\* C19, the case: both calls have returned and each has discarded an item
C19_Witness ==
    /\ pc = "done"
    /\ Len(exact.val) < Len(loaded)
    /\ Len(fuzzy.val) < Len(exact.val)
    /\ OutputsSelected

\* C19 of dedupe_fuzzy_within_entity called by itself (under SpecFuzzy), at
\* every threshold: what it returns is selected from its input
C19_FuzzySelected ==
    \A t \in LastCalled : ~fz_out[t].raised => SelectedFrom(fz_in, fz_out[t].val)

(***************************************************************************)
(* Near-duplicate pairs among the survivors (checked under SpecFuzzy)      *)
(***************************************************************************)

\* no two items of the list have titles that score >= t
NoPair(its, t) ==
    \A i, j \in 1..Len(its) :
        i < j => ~ScoreAtLeast(normalize_title(its[i].title),
                               normalize_title(its[j].title), t)

KeptAccepted(prev, next) ==
    /\ ~prev.raised
    /\ ~next.raised
    /\ (next.val = prev.val \/ Len(next.val) = Len(prev.val) + 1)

RECURSIVE KeepsAcceptedFrom(_, _, _)
\* no turn of the candidates `rest` puts a candidate in an accepted slot,
\* given the outcome of the turns before them
KeepsAcceptedFrom(prev, rest, t) ==
    \/ rest = <<>>
    \/ /\ KeptAccepted(prev, AcceptAfter(prev, Head(rest), t))
       /\ KeepsAcceptedFrom(AcceptAfter(prev, Head(rest), t), Tail(rest), t)

\* the same of a group, given the outcome of sorting it
KeepsAccepted(sorted, t) == ~sorted.raised /\ KeepsAcceptedFrom(Ok(<<>>), sorted.val, t)

SameUrlSameDomain(its) ==
    \A i, j \in 1..Len(its) :
        its[i].url = its[j].url =>
            /\ its[i].domain = its[j].domain
            /\ Len(its[i].url) = Len(its[j].url)

\* the positions of the list whose item has the url
WithUrl(its, u) == {i \in 1..Len(its) : its[i].url = u}

\* no item with the url has a parsed published time earlier than that of item k
Earliest(its, k, u) ==
    \A j \in WithUrl(its, u) :
        /\ ~DtCmpRaises(TimeOf(its[j]), TimeOf(its[k]))
        /\ ~DtLess(TimeOf(its[j]), TimeOf(its[k]))

\* k is the first position among those of the earliest items with the url
FirstOfEarliest(its, k, u) ==
    /\ k \in WithUrl(its, u)
    /\ Earliest(its, k, u)
    /\ \A j \in WithUrl(its, u) : j < k => ~Earliest(its, j, u)

\* the output holds, for each non-empty url of the input, the first of the
\* earliest input items with that url
SurvivorsFirstOfEarliest(input, output) ==
    \A u \in UrlsOf(input) \ {""} :
        \E k \in 1..Len(input) :
            /\ FirstOfEarliest(input, k, u)
            /\ \A i \in 1..Len(output) : output[i].url = u => output[i] = input[k]
            /\ IsIn(input[k], output)

\* C21: in dedupe_exact applied to the output of load_items, two items that
\* share a url always have the same domain and the same url length, so
\* tie-break criteria 1 and 2 never decide: for each url the survivor is the
\* first-encountered item among those with the minimum parsed published time
\* for that url (an unparsable timestamp counting as the minimum).
C21_FirstOfEarliest ==
    ExactRan =>
        /\ SameUrlSameDomain(loaded)
        /\ ~exact.raised
        /\ SurvivorsFirstOfEarliest(loaded, exact.val)

\* C21 of the calls that return
C21_WhenReturned ==
    ExactRan =>
        /\ SameUrlSameDomain(loaded)
        /\ ~exact.raised => SurvivorsFirstOfEarliest(loaded, exact.val)

\* a call that returned after an item replaced an earlier-encountered one
\* with its url and a third with the same time as the first did not
C21_ReturnedCase ==
    /\ ExactRan
    /\ ~exact.raised
    /\ Len(loaded) = 3
    /\ Len(exact.val) = 1
    /\ exact.val[1] = loaded[2]
    /\ loaded[3] # loaded[1]
    /\ DtEq(TimeOf(loaded[3]), TimeOf(loaded[1]))

(***************************************************************************)
(* The hits of the official-site collector across runs (checked under      *)
(* SpecSite)                                                               *)
(***************************************************************************)

\* the step is a turn of the loop over `filtered` (the only step that
\* shortens todo)
PageStep == site_pc = "run" /\ todo # <<>> /\ todo' = Tail(todo)

\* the url of the turn has no sitemap lastmod: `lastmod` is None or empty
NoLastmod == ~Truthy(Head(todo).lastmod)

\* the turn appends a hit
HitReported == PageStep /\ hits' # hits

\* what the page of the turn answers
Response == Fetch(server[Head(todo).url])

\* the pages hold, for the url, a value of a header that the headers carry
\* with a present, different value
StoredDiffers(pages, url, headers) ==
    \/ HeaderChanged(headers.etag, PrevOf(pages, url, "etag"))
    \/ HeaderChanged(headers.last_modified, PrevOf(pages, url, "last_modified"))

\* an earlier turn of this run wrote the entry of the url
FetchedThisRun(url) == pages_state[url] # <<>> /\ pages_state[url][1].seen_at = run_no

\* C22: a url without sitemap lastmod is reported as a hit in a run only if
\* the store, as the earlier runs left it, holds an ETag or Last-Modified
\* value for it and the current response carries a present, different value
\* for that same header.
C22_HitNeedsEarlierRunValue ==
    [][HitReported /\ NoLastmod
         => ~Response.raised /\ StoredDiffers(state_file, Head(todo).url, Response.val)]_vars

\* C22, second part: in a run that starts with no entry for the url in the
\* store (no earlier run fetched it), no hit is reported for the url.
C22_NoHitInFirstRun ==
    [][PageStep /\ NoLastmod /\ state_file[Head(todo).url] = <<>> => hits' = hits]_vars

\* C22, third part: after a turn that fetched the headers, pages_state holds
\* them for the url, and the end of the run writes pages_state to the store.
C22_StoreHoldsFetched ==
    [][/\ PageStep /\ ~BeforeCutoff(Head(todo).lastmod) /\ ~Response.raised
           => /\ pages_state'[Head(todo).url] # <<>>
              /\ pages_state'[Head(todo).url][1].etag = Response.val.etag
              /\ pages_state'[Head(todo).url][1].last_modified = Response.val.last_modified
       /\ site_pc = "run" /\ site_pc' = "idle" => state_file' = pages_state]_vars

\* What the code compares with is pages_state, which the earlier turns of the
\* same run have written too: a hit without lastmod needs a differing value
\* there.
C22_HitNeedsLoadedValue ==
    [][HitReported /\ NoLastmod
         => ~Response.raised /\ StoredDiffers(pages_state, Head(todo).url, Response.val)]_vars

\* For a url no earlier turn of the run has fetched, the first two parts of
\* C22 hold.
C22_FirstFetchOfRun ==
    [][PageStep /\ NoLastmod /\ ~FetchedThisRun(Head(todo).url)
         => /\ hits' # hits
                => ~Response.raised /\ StoredDiffers(state_file, Head(todo).url, Response.val)
            /\ state_file[Head(todo).url] = <<>> => hits' = hits]_vars

====
